---------------------------- MODULE Spec2Model ----------------------------
(***************************************************************************)
(* A model of the LinkedIn job search service: the requirement matchers,   *)
(* the browser-driven scraper, the HTTP scraper with its sample-job        *)
(* generator, the two search entry points, and the export of jobs to a     *)
(* Google sheet.                                                           *)
(*                                                                         *)
(* Python strings are TLA+ strings; a float match score n/d is the record  *)
(* [num |-> n, den |-> d]; a dict is a record, and a key the dict lacks is *)
(* a field the record lacks.                                               *)
(***************************************************************************)
EXTENDS Integers, Sequences, FiniteSets, TLC

VARIABLES
    \* --- requirement matchers applied to one drawn input
    mTitle,      \* job title
    mDesc,       \* job description
    mReqs,       \* requirement list
    mOut,        \* results computed so far: matcher name -> result
    \* --- one search call
    pc,          \* where the call stands
    entry,       \* the entry point called
    request,     \* its arguments
    driver,      \* the browser session launched for the call: "none", "open"
                 \* (held by the LinkedInScraper), "orphan" (launched, held by
                 \* nothing), "quit"
    jobs,        \* the jobs the running strategy has collected
    raised,      \* whether the running strategy has raised
    page,        \* the number of the next result page the HTTP scraper fetches
    raw,         \* the records the running scraper found, before any cap
    attempts,    \* the strategies started, in order
    result,      \* what the call returned to its caller
    http_log,    \* the page requests and the sleeps of the HTTP scraper, in order
    \* --- the sheet and the export calls, one for each exporting process
    sheet,       \* the rows of the "Job Listings" tab, the header row first
    xpc,         \* where each call of add_jobs_to_sheets stands
    xcall,       \* its arguments
    xjobs,       \* its local `jobs`
    xnext,       \* next_row of its add_jobs
    xresult,     \* what it returned
    xfaults,     \* the backend operations that failed during it
    xbefore,     \* the sheet as it was when the call started
    xafter,      \* the calls that had returned when it started
    xwrote,      \* the rows its add_jobs wrote to the sheet
    \* --- one request to a front end
    front,       \* the front end called
    freq,        \* the request it received
    fpc,         \* where its handler stands
    response,    \* what the client got
    \* --- the tabs of a browser session during _get_job_description
    window_handles,  \* the open tabs, in the order the driver lists them
    focus,           \* the tab the driver's commands go to
    dpc,             \* where _get_job_description stands
    failed_at,       \* the step of the running fetch that raised
    dtext,           \* its local `description`
    descriptions,    \* what the fetches have returned, in order
    \* --- the helpers called on their own
    generated,       \* the calls of _generate_sample_jobs made so far
    \* --- the scroll loop of LinkedInScraper.search_jobs
    spc,             \* where the loop stands
    scroll_max,      \* its max_jobs
    last_height,     \* its last_height
    jobs_loaded,     \* its jobs_loaded
    scroll_log,      \* its scrolls and sleeps and what each scroll did to the
                     \* page height, in order
    \* --- a call of a function wrapped by retry_async
    rpc,             \* where the wrapper stands
    decorated,       \* max_retries, delay and backoff of the decorator
    attempt,         \* the loop variable
    current_delay,   \* its current_delay
    last_exception,  \* its last_exception
    invoked,         \* the outcome of each invocation of the function
    slept,           \* the length of each sleep
    retry_result,    \* what the wrapper returned or raised
    \* --- the token storage of the OAuth client
    clock,           \* the time, in seconds
    tokens,          \* TokenStorage._tokens: user id -> token, created_at,
                     \* expires_at
    issued,          \* per user, the last store_token call (its token and
                     \* time) that no remove_token call followed, or None
    got,             \* the last get_token call: its number, user, time, what
                     \* issued held for the user and what it returned
    \* --- the OAuth endpoints of the HTTP API
    oauth_states,    \* oauth_states: state -> used
    callbacks,       \* each callback request: its state, where it stands
                     \* and the status it was answered with
    oauth_log,       \* the token exchanges made and the tokens stored, each
                     \* with the callback and its state, in order
    \* --- the background searches of POST /search/async
    background_tasks_status,   \* background_tasks_status: task id -> entry
    bpc,             \* where the background search of each task stands
    \* --- one LinkedInScraper object in the hands of a client
    self_driver,     \* self.driver: none, or a session that is open or quit
    commands,        \* the browser commands issued, each with the state of
                     \* the session it was issued on, in order
    \* --- one RateLimiter and the coroutines that call acquire()
    lclock,          \* the time of the event loop
    calls,           \* self.calls
    acquirers,       \* each coroutine: where it stands, the `now` it read
                     \* and when its sleep ends
    acquired         \* the times at which the calls of acquire() completed

matchVars == <<mTitle, mDesc, mReqs, mOut>>
searchVars ==
    <<pc, entry, request, driver, jobs, raised, page, raw, attempts, result, http_log>>

exportVars == <<sheet, xpc, xcall, xjobs, xnext, xresult, xfaults, xbefore, xafter, xwrote>>
frontVars == <<front, freq, fpc, response>>
tabVars == <<window_handles, focus, dpc, failed_at, dtext, descriptions>>
scrollVars == <<spc, scroll_max, last_height, jobs_loaded, scroll_log>>
retryVars == <<rpc, decorated, attempt, current_delay, last_exception, invoked,
               slept, retry_result>>
tokenVars == <<clock, tokens, issued, got>>
oauthVars == <<oauth_states, callbacks, oauth_log>>
taskVars == <<background_tasks_status, bpc>>
objectVars == <<self_driver, commands>>
limiterVars == <<lclock, calls, acquirers, acquired>>
helperVars == <<generated, scrollVars, retryVars, tokenVars, oauthVars, taskVars,
                objectVars, limiterVars>>

\* what a matcher step, a search step and an export step leave alone
notMatch == <<searchVars, exportVars, frontVars, tabVars, helperVars>>
notSearch == <<matchVars, exportVars, frontVars, tabVars, helperVars, http_log>>
notHttp == <<matchVars, exportVars, frontVars, tabVars, helperVars>>
notExport == <<matchVars, searchVars, frontVars, tabVars, helperVars>>
notTabs == <<matchVars, searchVars, exportVars, frontVars, helperVars>>
notHelpers == <<matchVars, searchVars, exportVars, frontVars, tabVars>>

vars == <<mTitle, mDesc, mReqs, mOut,
          pc, entry, request, driver, jobs, raised, page, raw, attempts, result,
          http_log,
          sheet, xpc, xcall, xjobs, xnext, xresult, xfaults, xbefore, xafter, xwrote,
          front, freq, fpc, response,
          window_handles, focus, dpc, failed_at, dtext, descriptions,
          generated, spc, scroll_max, last_height, jobs_loaded, scroll_log,
          rpc, decorated, attempt, current_delay, last_exception, invoked,
          slept, retry_result, clock, tokens, issued, got,
          oauth_states, callbacks, oauth_log, background_tasks_status, bpc,
          self_driver, commands, lclock, calls, acquirers, acquired>>

----------------------------------------------------------------------------
(* Bounds of the model *)

\* longest requirement list drawn for the matchers
MaxReqs == 2
\* most result cards a browser page shows
MaxCards == 3
\* the small values of max_jobs requested: 1..MaxSmallJobs
MaxSmallJobs == 2
\* most cards of an HTTP result page, short of a full page
MaxPageCards == 2
\* most jobs of a browser search that is exported
MaxExportJobs == 3

----------------------------------------------------------------------------
(* Strings *)

UpperChars == "ABCDEFGHIJKLMNOPQRSTUVWXYZ"
LowerChars == "abcdefghijklmnopqrstuvwxyz"

LowerOf ==
    [c \in {SubSeq(UpperChars, i, i) : i \in 1..Len(UpperChars)} |->
        LET i == CHOOSE k \in 1..Len(UpperChars) : SubSeq(UpperChars, k, k) = c
        IN  SubSeq(LowerChars, i, i)]

\* str.lower() on one character
LowerChar(c) == IF c \in DOMAIN LowerOf THEN LowerOf[c] ELSE c

\* the characters of a string, as a sequence
Chars(s) == SubSeq([i \in 1..Len(s) |-> SubSeq(s, i, i)], 1, Len(s))

\* str.lower(), as the sequence of the lowered characters
lower(s) == SubSeq([i \in 1..Len(s) |-> LowerChar(SubSeq(s, i, i))], 1, Len(s))

\* Python's `sub in text`, on the character sequences of two strings
Contains(sub, text) ==
    \E i \in 0..(Len(text) - Len(sub)) : \A k \in 1..Len(sub) : text[i + k] = sub[k]

\* f"{title} {description}"
JobText(title, description) == title \o " " \o description

\* [x for x in s if Test(x)]
Filter(s, Test(_)) == SelectSeq(s, Test)

\* s[:n] for n >= 0
Take(s, n) == SubSeq(s, 1, IF n < Len(s) THEN n ELSE Len(s))

Min(a, b) == IF a <= b THEN a ELSE b

----------------------------------------------------------------------------
(* Match scores: the float n/d *)

Score(n, d) == [num |-> n, den |-> d]
ScoreEq(a, b) == a.num * b.den = b.num * a.den
\* a >= 0.5
AtLeastHalf(a) == 2 * a.num >= a.den
\* 0 <= a <= 1
InUnitInterval(a) == 0 <= a.num /\ a.num <= a.den

----------------------------------------------------------------------------
(* The requirement matchers *)

\* utils.calculate_match_score
calculate_match_score(job_text, requirements) ==
    IF requirements = <<>>
    THEN [matches |-> <<>>, match_score |-> Score(1, 1), is_match |-> TRUE]
    ELSE LET job_text_lower == lower(job_text)
             matches == Filter(requirements,
                               LAMBDA r : Contains(lower(r), job_text_lower))
             match_score == Score(Len(matches), Len(requirements))
         IN  [matches |-> matches, match_score |-> match_score,
              is_match |-> AtLeastHalf(match_score)]

\* LinkedInScraper.match_job_requirements
match_job_requirements(job, requirements) ==
    LET job_text == lower(JobText(job.title, job.description))
        matches == Filter(requirements, LAMBDA r : Contains(lower(r), job_text))
        match_score == IF requirements # <<>>
                       THEN Score(Len(matches), Len(requirements))
                       ELSE Score(0, 1)
    IN  [matches |-> matches, match_score |-> match_score,
         is_match |-> AtLeastHalf(match_score)]

\* utils.match_requirements, which the HTTP scraper imports and utils.py
\* does not define: the matching rule of the specification, section 4.1
match_requirements(job_text, requirements) ==
    IF requirements = <<>> THEN TRUE
    ELSE LET job_text_lower == lower(job_text)
             matches == Filter(requirements,
                               LAMBDA r : Contains(lower(r), job_text_lower))
         IN  2 * Len(matches) >= Len(requirements)

\* the 'match_score' entry of a job built by the HTTP scraper and by the
\* sample-job generator: the number of requirements found, 0 with none given
inline_match_score(title, description, requirements) ==
    IF requirements # <<>>
    THEN LET text == lower(JobText(title, description))
         IN  Score(Len(Filter(requirements, LAMBDA r : Contains(lower(r), text))), 1)
    ELSE Score(0, 1)

\* the 'is_match' and 'match_score' entries of such a job
inline_match(title, description, requirements) ==
    [is_match |-> match_requirements(JobText(title, description), requirements),
     match_score |-> inline_match_score(title, description, requirements)]

----------------------------------------------------------------------------
(* The sample-job generator of the HTTP scraper *)

\* ", ".join(parts)
RECURSIVE Join(_, _)
Join(parts, sep) ==
    IF parts = <<>> THEN ""
    ELSE IF Len(parts) = 1 THEN parts[1]
    ELSE parts[1] \o sep \o Join(Tail(parts), sep)

\* s[i % len(s)] for a Python list s and i >= 0
Cycle(s, i) == s[(i % Len(s)) + 1]

sample_companies ==
    <<"Google", "Microsoft", "Amazon", "Apple", "Meta", "Netflix", "Tesla",
      "Spotify", "Airbnb", "Uber", "LinkedIn", "Twitter", "Adobe", "Salesforce",
      "Oracle", "IBM", "Intel", "NVIDIA", "Dropbox", "Slack", "Stripe", "Square",
      "Palantir", "Databricks", "Snowflake", "MongoDB", "Redis", "Elastic">>

default_sample_locations ==
    <<"San Francisco, CA", "New York, NY", "Seattle, WA", "Austin, TX",
      "Boston, MA", "Remote", "Los Angeles, CA", "Chicago, IL", "Denver, CO",
      "Atlanta, GA", "Portland, OR", "Miami, FL">>

sample_locations(location) ==
    IF location # "" THEN <<location>> ELSE default_sample_locations

\* the dict title_variations, in its insertion order
title_variations ==
    << <<"python", <<"Python Developer", "Senior Python Engineer",
                     "Python Software Engineer", "Backend Python Developer">> >>,
       <<"ml", <<"ML Engineer", "Machine Learning Engineer", "Senior ML Engineer",
                 "AI/ML Engineer">> >>,
       <<"data", <<"Data Scientist", "Senior Data Analyst", "Data Engineer",
                   "Principal Data Scientist">> >>,
       <<"frontend", <<"Frontend Developer", "React Developer", "UI/UX Engineer",
                       "Senior Frontend Engineer">> >>,
       <<"backend", <<"Backend Engineer", "API Developer", "Server-Side Engineer",
                      "Backend Architect">> >>,
       <<"fullstack", <<"Full Stack Developer", "Full Stack Engineer",
                        "Senior Full Stack Developer">> >>,
       <<"devops", <<"DevOps Engineer", "Site Reliability Engineer", "Cloud Engineer",
                     "Infrastructure Engineer">> >> >>

\* the titles of the buckets whose key occurs in the keywords, from bucket k on
RECURSIVE BucketTitles(_, _)
BucketTitles(keywords_lower, k) ==
    IF k > Len(title_variations) THEN <<>>
    ELSE (IF Contains(Chars(title_variations[k][1]), keywords_lower)
          THEN title_variations[k][2] ELSE <<>>)
         \o BucketTitles(keywords_lower, k + 1)

job_titles(keywords) ==
    LET found == BucketTitles(lower(keywords), 1)
    IN  IF found # <<>> THEN found
        ELSE <<keywords, "Senior " \o keywords, keywords \o " Engineer",
               keywords \o " Specialist">>

\* the requirements job i mentions: of the first four, the first two and
\* every later one at position j with (i + j) % 3 = 0
req_mentions(requirements, i) ==
    LET first4 == Take(requirements, 4)
        picked == {j \in 1..Len(first4) : (j - 1) < 2 \/ (i + (j - 1)) % 3 = 0}
        RECURSIVE From(_)
        From(j) == IF j > Len(first4) THEN <<>>
                   ELSE (IF j \in picked THEN <<first4[j]>> ELSE <<>>) \o From(j + 1)
    IN  From(1)

sample_descriptions(company, title, req_text) ==
    <<"Join " \o company \o " as a " \o title \o "! We're seeking someone with expertise in "
        \o req_text
        \o ". You'll work on cutting-edge projects and collaborate with world-class engineers.",
      "Exciting opportunity at " \o company \o "! Looking for a " \o title
        \o " with strong background in " \o req_text
        \o ". Competitive salary, great benefits, and innovative work environment.",
      company \o " is hiring a " \o title \o "! Must have experience with " \o req_text
        \o ". Work on high-impact projects that reach millions of users worldwide.",
      "We're looking for a talented " \o title \o " to join our " \o company
        \o " team. Key requirements include " \o req_text
        \o " and passion for building scalable solutions.">>

\* the number 3000000000 + i in decimal, for 0 <= i < 100
JobNumber(i) == "30000000" \o (IF i < 10 THEN "0" ELSE "") \o ToString(i)

\* the job the generator builds at index i (from 0)
sample_job(keywords, location, requirements, i) ==
    LET company == Cycle(sample_companies, i)
        job_location == Cycle(sample_locations(location), i)
        title == Cycle(job_titles(keywords), i)
        mentions == req_mentions(requirements, i)
        req_text == IF mentions # <<>> THEN Join(mentions, ", ")
                    ELSE "relevant technical skills"
        description == Cycle(sample_descriptions(company, title, req_text), i)
        m == inline_match(title, description, requirements)
        base_salary == 90 + (i * 8)
                       + (IF Contains(Chars("Senior"), Chars(title)) THEN 20 ELSE 0)
                       + (IF company \in {"Google", "Meta", "Apple"} THEN 30 ELSE 0)
    IN  [title |-> title,
         company |-> company,
         location |-> job_location,
         description |-> description,
         link |-> "https://www.linkedin.com/jobs/view/" \o JobNumber(i),
         salary |-> "$" \o ToString(base_salary) \o "k - $"
                    \o ToString(base_salary + 40) \o "k",
         posted_date |-> ToString((i % 14) + 1) \o " days ago",
         is_match |-> m.is_match,
         match_score |-> m.match_score,
         source |-> "sample_data"]

\* the generator's cap on the jobs of one call
SampleCap == 20

\* range(n) has no element for n <= 0
RangeLen(n) == IF n > 0 THEN n ELSE 0

\* the generator without its cap: range(max_jobs)
generate_sample_jobs_uncapped(keywords, location, requirements, max_jobs) ==
    [k \in 1..RangeLen(max_jobs) |->
        sample_job(keywords, location, requirements, k - 1)]

\* LinkedInScraperFallback._generate_sample_jobs
generate_sample_jobs(keywords, location, requirements, max_jobs) ==
    [k \in 1..RangeLen(Min(max_jobs, SampleCap)) |->
        sample_job(keywords, location, requirements, k - 1)]

----------------------------------------------------------------------------
(* The browser-driven scraper *)

\* Python's None
None == [none |-> TRUE]

\* the text of a long detail page, 1500 characters
LongDescription ==
    LET line == "We build data pipelines in Python and Scala for retail. "
               \o "You own services from design to production. "
        block == line \o line \o line \o line \o line
    IN  block \o block \o block

\* the result cards a page may show, as the selectors of
\* LinkedInScraper._extract_job_details and _get_job_description read them
PrimaryCards ==
    <<[title |-> "Senior Python Developer", company |-> "Tech Corp",
       location |-> "San Francisco, CA",
       description |-> "Experience in Django, REST APIs, PostgreSQL and AWS.",
       job_url |-> "https://www.linkedin.com/jobs/view/101",
       posted_date |-> "2024-01-15"],
      [title |-> "Java Engineer", company |-> "Initech", location |-> "Remote",
       description |-> "Spring Boot and Kafka.",
       job_url |-> "https://www.linkedin.com/jobs/view/102",
       posted_date |-> None],
      [title |-> "Data Analyst", company |-> "Globex", location |-> "Austin, TX",
       description |-> "Description not available",
       job_url |-> "https://www.linkedin.com/jobs/view/103",
       posted_date |-> "2024-01-16"],
      [title |-> "Data Engineer", company |-> "Hooli", location |-> "Remote",
       description |-> LongDescription,
       job_url |-> "https://www.linkedin.com/jobs/view/104",
       posted_date |-> "2024-01-17"]>>

\* a results page: `count` cards taken round the card list from `offset`,
\* those at the positions in `broken` failing to extract
PrimaryPages ==
    {[offset |-> o, count |-> c, broken |-> b] :
        o \in 0..(Len(PrimaryCards) - 1), c \in 0..MaxCards, b \in SUBSET (1..MaxCards)}

ValidPrimaryPage(pg) ==
    /\ pg.broken \subseteq 1..pg.count
    /\ pg.count = 0 => pg.offset = 0

\* driver.find_elements(...) once the page is scrolled: the cards in page order
job_elements(pg) == [k \in 1..pg.count |-> Cycle(PrimaryCards, pg.offset + k - 1)]

\* LinkedInScraper._extract_job_details on the card at position k: a
\* JobListing, or None when any step of the extraction raised
extract_job_details(pg, k) ==
    IF k \in pg.broken THEN None
    ELSE LET card == job_elements(pg)[k]
         IN  [title |-> card.title, company |-> card.company,
              location |-> card.location, description |-> card.description,
              job_url |-> card.job_url, posted_date |-> card.posted_date,
              employment_type |-> None, experience_level |-> None,
              salary_range |-> None]

\* config.max_jobs_per_search
max_jobs_per_search == 25

\* max_jobs or config.max_jobs_per_search
EffectiveMaxJobs(max_jobs) == IF max_jobs # 0 THEN max_jobs ELSE max_jobs_per_search

\* s[:n] for any integer n (a negative n counts from the end)
Slice(s, n) == IF n >= 0 THEN Take(s, n)
               ELSE Take(s, IF Len(s) + n > 0 THEN Len(s) + n ELSE 0)

\* the extraction loop of LinkedInScraper.search_jobs over job_elements[:max_jobs]:
\* the listings extracted, a failed card skipped
extracted_listings(pg, max_jobs) ==
    LET n == Len(Slice(job_elements(pg), EffectiveMaxJobs(max_jobs)))
        RECURSIVE From(_)
        From(k) == IF k > n THEN <<>>
                   ELSE LET job_listing == extract_job_details(pg, k)
                        IN  (IF job_listing # None THEN <<job_listing>> ELSE <<>>)
                            \o From(k + 1)
    IN  From(1)

\* the result loop of linkedin_scraper.search_linkedin_jobs: each listing as
\* a dict, with its match entries when requirements are given, and then kept
\* only if it matches
job_results(listings, requirements) ==
    LET RECURSIVE From(_)
        From(k) ==
            IF k > Len(listings) THEN <<>>
            ELSE LET job == listings[k]
                     job_data == job
                 IN  IF requirements # <<>>
                     THEN LET match_info == match_job_requirements(job, requirements)
                              with_match ==
                                  [f \in DOMAIN job_data \cup DOMAIN match_info |->
                                      IF f \in DOMAIN match_info THEN match_info[f]
                                      ELSE job_data[f]]
                          IN  (IF match_info.is_match THEN <<with_match>> ELSE <<>>)
                              \o From(k + 1)
                     ELSE <<job_data>> \o From(k + 1)
    IN  From(1)

----------------------------------------------------------------------------
(* The HTTP scraper *)

\* utils.clean_text, which the HTTP scraper imports and utils.py does not
\* define: the cards below carry text that has no whitespace to clean
clean_text(text) == text

\* utils.extract_salary, which the HTTP scraper imports and utils.py does
\* not define: none of the cards below states a salary
extract_salary(description) == ""

\* the elements BeautifulSoup finds in a result card: <<text>>, or <<>> when
\* the card has no such element
HttpCards ==
    <<[title |-> <<"Python Developer">>, company |-> <<"Acme">>,
       location |-> <<"Remote">>, href |-> <<"/jobs/view/201">>,
       description |-> <<"Django and REST API services.">>],
      [title |-> <<>>, company |-> <<>>, location |-> <<>>, href |-> <<>>,
       description |-> <<>>],
      [title |-> <<"Java Engineer">>, company |-> <<"Initech">>,
       location |-> <<>>, href |-> <<"https://www.linkedin.com/jobs/view/203">>,
       description |-> <<"Spring Boot and Kafka.">>],
      [title |-> <<"Sign in to create job alert">>, company |-> <<>>,
       location |-> <<>>, href |-> <<"https://www.linkedin.com/login">>,
       description |-> <<>>]>>

OrElse(found, default) == IF found # <<>> THEN found[1] ELSE default

\* LinkedInScraperFallback._extract_job_info
extract_job_info(card, requirements) ==
    LET title == IF card.title # <<>> THEN clean_text(card.title[1]) ELSE "Job Title"
        company == IF card.company # <<>> THEN clean_text(card.company[1]) ELSE "Company"
        location == IF card.location # <<>> THEN clean_text(card.location[1])
                    ELSE "Location"
        href == OrElse(card.href, "#")
        link == IF Len(href) > 0 /\ SubSeq(href, 1, 1) = "/"
                THEN "https://www.linkedin.com" \o href ELSE href
        description == IF card.description # <<>> THEN clean_text(card.description[1])
                       ELSE "Job opportunity at " \o company
        m == inline_match(title, description, requirements)
    IN  [title |-> title,
         company |-> company,
         location |-> location,
         description |-> description,
         link |-> link,
         salary |-> extract_salary(description),
         posted_date |-> "Recently",
         is_match |-> m.is_match,
         match_score |-> m.match_score,
         source |-> "linkedin_fallback"]

\* the cards of one result page per request
PageSize == 25

\* the most pages one search fetches
MaxPages == 3

\* a fetched page: `count` cards taken round the card list from `offset`;
\* a few cards from any offset, or a full page and one of a card more
HttpPages ==
    {[offset |-> o, count |-> c] : o \in 0..(Len(HttpCards) - 1), c \in 1..MaxPageCards}
    \cup {[offset |-> 0, count |-> c] : c \in {0, PageSize, PageSize + 1}}

\* LinkedInScraperFallback._parse_job_listings: the jobs of job_cards[:25]
parse_job_listings(pg, requirements) ==
    [k \in 1..Min(pg.count, PageSize) |->
        extract_job_info(Cycle(HttpCards, pg.offset + k - 1), requirements)]

\* range(0, min(max_jobs // 25 + 1, 3))
NumPages(max_jobs) == RangeLen(Min((max_jobs \div PageSize) + 1, MaxPages))

PlaceholderTitles == {"Job Title", "Sign in to create job alert"}

\* a test that takes only the empty list for a failure
NothingUsable_when_empty(js) == js = <<>>

\* the HTTP scraper's test for having found nothing usable
NothingUsable(js) ==
    \/ js = <<>>
    \/ Len(SelectSeq(js, LAMBDA j : j.title \notin PlaceholderTitles)) = 0

----------------------------------------------------------------------------
(* Inputs of the matchers *)

MatchTitles == {"Senior Python Developer", "Java Engineer", "python django dev"}
MatchDescriptions ==
    {"Experience in Django, REST APIs, PostgreSQL and AWS.",
     "Spring Boot and Kafka.",
     ""}
ReqTerms == {"Python", "django", "REST API"}

RECURSIVE SeqsUpTo(_, _)
SeqsUpTo(S, n) ==
    IF n = 0 THEN {<<>>}
    ELSE LET shorter == SeqsUpTo(S, n - 1)
         IN  shorter \cup {Append(s, x) : s \in shorter, x \in S}

MatchReqLists == SeqsUpTo(ReqTerms, MaxReqs)

Matchers == {"utils", "scraper", "inline"}

MatchInit ==
    /\ mTitle \in MatchTitles
    /\ mDesc \in MatchDescriptions
    /\ mReqs \in MatchReqLists
    /\ mOut = [m \in {} |-> 0]

Computed(m) == m \in DOMAIN mOut

Record(m, out) == mOut' = [k \in DOMAIN mOut \cup {m} |-> IF k = m THEN out ELSE mOut[k]]

\* a caller scores the job with utils.calculate_match_score
MatchUtils ==
    /\ ~Computed("utils")
    /\ Record("utils", calculate_match_score(JobText(mTitle, mDesc), mReqs))
    /\ UNCHANGED <<mTitle, mDesc, mReqs, notMatch>>

\* a caller scores the job with LinkedInScraper.match_job_requirements
MatchScraper ==
    /\ ~Computed("scraper")
    /\ Record("scraper",
              match_job_requirements([title |-> mTitle, description |-> mDesc], mReqs))
    /\ UNCHANGED <<mTitle, mDesc, mReqs, notMatch>>

\* the HTTP scraper or the generator builds the job's match entries
MatchInline ==
    /\ ~Computed("inline")
    /\ Record("inline", inline_match(mTitle, mDesc, mReqs))
    /\ UNCHANGED <<mTitle, mDesc, mReqs, notMatch>>

\* the matchers at rest, for the specifications that do not draw for them
MatchRest ==
    /\ mTitle = ""
    /\ mDesc = ""
    /\ mReqs = <<>>
    /\ mOut = [m \in {} |-> 0]

MatchNext == MatchUtils \/ MatchScraper \/ MatchInline

----------------------------------------------------------------------------
(* The sheet *)

\* the headers GoogleSheetsClient._setup_headers writes to row 1
headers ==
    <<"Job Title", "Company", "Location", "Job URL", "Posted Date",
      "Employment Type", "Experience Level", "Salary Range", "Match Score",
      "Matching Requirements", "Description", "Date Added">>

\* the position of a column letter in a row
column == [A |-> 1, D |-> 4, K |-> 11]

\* v is None (a test that is defined for a value of any type)
is_none(v) == ToString(v) = ToString(None)

\* job.get(key, default)
get(job, key, default) == IF key \in DOMAIN job THEN job[key] ELSE default

\* the length past which add_jobs cuts a description
DescriptionCap == 1000

\* the description cell of add_jobs
stored_description(description) ==
    IF Len(description) > DescriptionCap
    THEN SubSeq(description, 1, DescriptionCap) \o "..."
    ELSE description

\* datetime.now() of add_jobs, formatted; the clock is not modelled
current_time == "2024-01-15 10:30:00"

\* the row add_jobs builds for a job
job_row(job) ==
    <<get(job, "title", ""),
      get(job, "company", ""),
      get(job, "location", ""),
      get(job, "job_url", ""),
      get(job, "posted_date", ""),
      get(job, "employment_type", ""),
      get(job, "experience_level", ""),
      get(job, "salary_range", ""),
      get(job, "match_score", ""),
      Join(get(job, "matches", <<>>), ", "),
      stored_description(get(job, "description", "")),
      current_time>>

\* the empty row of the grid
EmptyRow == [c \in 1..Len(headers) |-> ""]

\* spreadsheets().values().get(range="Job Listings!X:X") then
\* result.get('values', []): the column down to its last cell that is not
\* empty, a row with an empty cell being []
values_get(sh, col) ==
    LET filled == {i \in 1..Len(sh) : sh[i][column[col]] # ""}
        last == IF filled = {} THEN 0
                ELSE CHOOSE i \in filled : \A j \in filled : j <= i
    IN  [i \in 1..last |->
            IF sh[i][column[col]] = "" THEN <<>> ELSE <<sh[i][column[col]]>>]

\* spreadsheets().values().update(range="Job Listings!A{next_row}:L{...}",
\* valueInputOption='RAW'): the rows overwrite the range, the grid growing
\* as needed; a null value leaves its cell as it was
values_update(sh, next_row, rows) ==
    LET last == next_row + Len(rows) - 1
        Old(i) == IF i <= Len(sh) THEN sh[i] ELSE EmptyRow
        Written(i) == [c \in 1..Len(headers) |->
                          IF is_none(rows[i - next_row + 1][c]) THEN Old(i)[c]
                          ELSE rows[i - next_row + 1][c]]
    IN  [i \in 1..(IF last > Len(sh) THEN last ELSE Len(sh)) |->
            IF i >= next_row /\ i <= last THEN Written(i) ELSE Old(i)]

\* the list GoogleSheetsClient.get_existing_jobs builds from column D:
\* [row[0] for row in values[1:] if row]
existing_urls(values) ==
    LET NotEmpty(row) == row # <<>>
        rows == SelectSeq(SubSeq(values, 2, Len(values)), NotEmpty)
    IN  [i \in 1..Len(rows) |-> rows[i][1]]

\* a filter that reads the URL under 'job_url' or, failing that, 'link'
filter_new_jobs_by_any_url(job_list, existing) ==
    LET existing_set == {existing[i] : i \in 1..Len(existing)}
        IsNew(job) == get(job, "job_url", get(job, "link", "")) \notin existing_set
    IN  SelectSeq(job_list, IsNew)

\* GoogleSheetsClient.filter_new_jobs, given what get_existing_jobs returned
filter_new_jobs(job_list, existing) ==
    LET existing_set == {existing[i] : i \in 1..Len(existing)}
        IsNew(job) == IF "job_url" \in DOMAIN job
                      THEN job.job_url \notin existing_set
                      ELSE TRUE
    IN  SelectSeq(job_list, IsNew)

\* the url get_spreadsheet_info reports
spreadsheet_url == "https://docs.google.com/spreadsheets/d/sheet-1"

\* the three results of add_jobs_to_sheets
NothingToAdd ==
    [success |-> TRUE, jobs_added |-> 0, message |-> "No new jobs to add"]
Added(n) ==
    [success |-> TRUE, jobs_added |-> n, spreadsheet_url |-> spreadsheet_url,
     message |-> "Successfully added " \o ToString(n) \o " jobs to spreadsheet"]
Failed(e) ==
    [success |-> FALSE, jobs_added |-> 0, error |-> e,
     message |-> "Failed to add jobs to spreadsheet: " \o e]

----------------------------------------------------------------------------
(* One search call *)

\* the three ways into a search: linkedin_scraper.search_linkedin_jobs, which
\* api.py, server.py and fastmcp_server.py import; the function of the same
\* name in linkedin_scraper_fallback; LinkedInScraperFallback.search_jobs
EntryPoints == {"scraper", "orchestrator", "http"}

\* the search_linkedin_jobs that api.py, server.py and fastmcp_server.py import
FrontEndEntry == "scraper"

SearchKeywords == {"python developer", "QA"}
SearchLocations == {"", "Remote"}
SearchRequirements ==
    {<<>>,
     <<"Python", "Django", "REST API">>,
     <<"Python", "Kafka", "Go", "Rust", "Scala">>}

\* the requests drawn: every combination with a small max_jobs (the values
\* -1 and 0 are what server.py and fastmcp_server.py let through), and a
\* few with max_jobs at the generator's cap, past it, at a full page and at
\* as many jobs as the HTTP scraper's pages hold,
\* and the search of example_usage.py
Requests ==
    [keywords : SearchKeywords, location : SearchLocations,
     requirements : SearchRequirements, max_jobs : -1..MaxSmallJobs]
    \cup [keywords : {"python developer"}, location : {""},
          requirements : {<<>>, <<"Python", "Django", "REST API">>},
          max_jobs : {SampleCap, SampleCap + 1, PageSize, MaxPages * PageSize}]
    \cup {[keywords |-> "Python developer", location |-> "Remote",
           requirements |-> <<"Python", "Django", "REST API">>, max_jobs |-> 5]}

NoRequest == [keywords |-> "", location |-> "", requirements |-> <<>>, max_jobs |-> 0]

Returned(js) == [kind |-> "list", jobs |-> js]
Raised == [kind |-> "raised"]
NoResult == [kind |-> "none"]

SearchInit ==
    /\ pc = "idle"
    /\ entry = "none"
    /\ request = NoRequest
    /\ driver = "none"
    /\ jobs = <<>>
    /\ raised = FALSE
    /\ page = 0
    /\ raw = 0
    /\ attempts = <<>>
    /\ result = NoResult
    /\ http_log = <<>>

\* entry point e is called with the arguments r; the two search_linkedin_jobs
\* functions start with the browser scraper, the HTTP scraper with its page
\* loop
StartSearch(e, r) ==
    /\ pc = "idle"
    /\ entry' = e
    /\ request' = r
    /\ pc' = IF e = "http" THEN "fetch" ELSE "initialize"
    /\ attempts' = <<IF e = "http" THEN "secondary" ELSE "primary">>
    /\ UNCHANGED <<driver, jobs, raised, page, raw, result, http_log>>

\* a caller calls an entry point
Call ==
    /\ \E e \in EntryPoints, r \in Requests : StartSearch(e, r)
    /\ UNCHANGED notSearch

\* what a raising _setup_driver leaves behind: nothing when the driver
\* install or webdriver.Chrome(...) raises, a launched session that
\* self.driver never gets when driver.execute_script(...) raises
FailedLaunches == {"none", "orphan"}

\* LinkedInScraper.initialize: the browser launches, or _setup_driver raises.
\* search_linkedin_jobs of linkedin_scraper lets the exception through its
\* try/finally (close() finds no driver); the orchestrator catches it
Initialize ==
    /\ pc = "initialize"
    /\ \/ /\ driver' = "open"
          /\ pc' = "search"
          /\ UNCHANGED <<raised, result>>
       \/ /\ entry = "scraper"
          /\ raised' = TRUE
          /\ result' = Raised
          /\ pc' = "done"
          /\ driver' \in FailedLaunches
       \/ /\ entry = "orchestrator"
          /\ raised' = TRUE
          /\ pc' = "sample"
          /\ driver' \in FailedLaunches
          /\ UNCHANGED result
    /\ UNCHANGED <<entry, request, jobs, page, raw, attempts, notSearch>>

\* LinkedInScraper.search_jobs called by linkedin_scraper.search_linkedin_jobs:
\* the navigation raises, or the result list does not appear within the wait
\* (an empty list), or the page is scrolled and its cards are extracted
ScraperSearch ==
    /\ pc = "search"
    /\ entry = "scraper"
    /\ \/ /\ raised' = TRUE
          /\ jobs' = <<>>
          /\ raw' = 0
       \/ /\ raised' = FALSE
          /\ jobs' = <<>>
          /\ raw' = 0
       \/ \E pg \in PrimaryPages :
            /\ ValidPrimaryPage(pg)
            /\ raised' = FALSE
            /\ jobs' = extracted_listings(pg, request.max_jobs)
            /\ raw' = Len(job_elements(pg))
    /\ pc' = "close"
    /\ UNCHANGED <<entry, request, driver, page, attempts, result, notSearch>>

\* LinkedInScraper.close: `if self.driver: self.driver.quit()`
close(d) == IF d = "open" THEN "quit" ELSE d

\* the rest of linkedin_scraper.search_linkedin_jobs: the results are built
\* from the listings, the finally clause closes the scraper, and the call
\* returns the results or lets the exception of search_jobs through
ScraperClose ==
    /\ pc = "close"
    /\ driver' = close(driver)
    /\ result' = IF raised THEN Raised
                 ELSE Returned(job_results(jobs, request.requirements))
    /\ pc' = "done"
    /\ UNCHANGED <<entry, request, jobs, raised, page, raw, attempts, notSearch>>

\* LinkedInScraper.search_jobs called by the orchestrator, which passes
\* requirements=... : the keyword lands in **filters, _build_search_url does
\* not take it and raises TypeError, search_jobs re-raises, the orchestrator
\* catches; the scraper is not closed. `if jobs: return jobs` is for a call
\* that returned
OrchestratorSearch ==
    /\ pc = "search"
    /\ entry = "orchestrator"
    /\ raised' = TRUE
    /\ jobs' = <<>>
    /\ IF ~raised' /\ jobs' # <<>>
       THEN /\ result' = Returned(jobs')
            /\ pc' = "done"
       ELSE /\ result' = result
            /\ pc' = "sample"
    /\ UNCHANGED <<entry, request, driver, page, raw, attempts, notSearch>>

\* a fallback that does not wait for the browser search to end
fallback_reached_early(p) == p \in {"search", "sample"}

\* the orchestrator is at its fallback: `await scraper.search_jobs(...)` has
\* raised, or has returned no job
fallback_reached(p) == p = "sample"

\* the orchestrator's last step: sample jobs, straight from the generator
OrchestratorSample ==
    /\ fallback_reached(pc)
    /\ attempts' = Append(attempts, "sample")
    /\ result' = Returned(generate_sample_jobs(request.keywords, request.location,
                                               request.requirements, request.max_jobs))
    /\ pc' = "done"
    /\ UNCHANGED <<entry, request, driver, jobs, raised, page, raw, notSearch>>

\* one round of the page loop of LinkedInScraperFallback.search_jobs:
\* _make_request returns None (a status other than 200, or an exception it
\* caught), or a response whose jobs are added; the loop ends with the last
\* page or once max_jobs jobs are collected, and asyncio.sleep(2) is reached
\* after a response that left the list short of max_jobs
HttpFetchPage ==
    /\ pc = "fetch"
    /\ page < NumPages(request.max_jobs)
    /\ \/ /\ jobs' = jobs
          /\ page' = page + 1
          /\ pc' = pc
          /\ raw' = raw
          /\ http_log' = Append(http_log, "request")
       \/ \E pg \in HttpPages :
            /\ raw' = raw + Len(parse_job_listings(pg, request.requirements))
            /\ LET all == jobs \o parse_job_listings(pg, request.requirements)
               IN  IF Len(all) >= request.max_jobs
                   THEN /\ jobs' = Slice(all, request.max_jobs)
                        /\ page' = page
                        /\ pc' = "fetched"
                        /\ http_log' = Append(http_log, "request")
                   ELSE /\ jobs' = all
                        /\ page' = page + 1
                        /\ pc' = pc
                        /\ http_log' = http_log \o <<"request", "sleep">>
    /\ UNCHANGED <<entry, request, driver, raised, attempts, result, notHttp>>

\* the end of LinkedInScraperFallback.search_jobs: sample jobs replace a
\* list that is empty or holds placeholder titles only
HttpFinish ==
    /\ \/ pc = "fetched"
       \/ pc = "fetch" /\ page >= NumPages(request.max_jobs)
    /\ IF NothingUsable(jobs)
       THEN /\ attempts' = Append(attempts, "sample")
            /\ result' = Returned(generate_sample_jobs(request.keywords,
                                     request.location, request.requirements,
                                     request.max_jobs))
       ELSE /\ attempts' = attempts
            /\ result' = Returned(jobs)
    /\ pc' = "done"
    /\ UNCHANGED <<entry, request, driver, jobs, raised, page, raw, notSearch>>

----------------------------------------------------------------------------
(* Export calls *)

\* the processes that export to the sheet
Exporters == {"first", "second"}

\* the job lists exported: what the browser search returns for a page of 1
\* to MaxExportJobs cards, with and without requirements, and for the card
\* with the long description, what the generator returns, what the HTTP
\* scraper returns for a page of two cards, no job, and a list a client of
\* the add_jobs_to_sheets tool sends with the same job in it twice
ExportJobLists ==
    {<<>>}
    \cup {LET found == job_results(extracted_listings(
                                      [offset |-> 0, count |-> 1, broken |-> {}], 1), <<>>)
          IN  found \o found}
    \cup {job_results(extracted_listings(pg, pg.count), <<>>) :
            pg \in {q \in PrimaryPages :
                       q.offset = 0 /\ q.broken = {} /\ q.count \in 1..MaxExportJobs}}
    \cup {job_results(extracted_listings([offset |-> 0, count |-> 2, broken |-> {}], 2),
                      <<"Python", "Django", "REST API">>)}
    \cup {job_results(extracted_listings([offset |-> 3, count |-> 1, broken |-> {}], 1),
                      <<>>)}
    \cup {generate_sample_jobs("python developer", "", <<>>, 2)}
    \cup {parse_job_listings([offset |-> 0, count |-> 2], <<>>)}

NoCall == [jobs |-> <<>>, filter_duplicates |-> FALSE]
NoExportResult == [none |-> TRUE]

\* the sheets exported to: the sheet as create_spreadsheet leaves it, and
\* that sheet with a row a user of the spreadsheet entered, its Job URL '#'
InitialSheets ==
    {<<headers>>,
     <<headers,
       <<"Backend Developer", "Umbrella", "Berlin", "#", "", "", "", "", "", "",
         "Entered by hand.", "2024-01-10 09:00:00">>>>}

\* one of the sheets, and no call under way
ExportInit ==
    /\ sheet \in InitialSheets
    /\ xpc = [e \in Exporters |-> "idle"]
    /\ xcall = [e \in Exporters |-> NoCall]
    /\ xjobs = [e \in Exporters |-> <<>>]
    /\ xnext = [e \in Exporters |-> 0]
    /\ xresult = [e \in Exporters |-> NoExportResult]
    /\ xfaults = [e \in Exporters |-> {}]
    /\ xbefore = [e \in Exporters |-> <<>>]
    /\ xafter = [e \in Exporters |-> {}]
    /\ xwrote = [e \in Exporters |-> <<>>]

\* the call returns res
Return(e, res) ==
    /\ xresult' = [xresult EXCEPT ![e] = res]
    /\ xpc' = [xpc EXCEPT ![e] = "done"]

\* the call goes on to the step at `to`
Goto(e, to) ==
    /\ xpc' = [xpc EXCEPT ![e] = to]
    /\ UNCHANGED xresult

\* a backend operation of the call fails
Fault(e, op) == xfaults' = [xfaults EXCEPT ![e] = @ \cup {op}]

\* an empty list treated as a failure
ReturnOrAdd_empty_fails(e, job_list) ==
    IF job_list = <<>> THEN Return(e, Failed("No jobs to add")) ELSE Goto(e, "add")

\* `if not jobs: return ...` of add_jobs_to_sheets, and else on to add_jobs
ReturnOrAdd(e, job_list) ==
    IF job_list = <<>> THEN Return(e, NothingToAdd) ELSE Goto(e, "add")

\* add_jobs_to_sheets is called with job_list and filter_duplicates, and its
\* client.initialize() authenticates or raises
StartExport(e, job_list, filter_duplicates) ==
    /\ xpc[e] = "idle"
    /\ xcall' = [xcall EXCEPT ![e] = [jobs |-> job_list,
                                      filter_duplicates |-> filter_duplicates]]
    /\ xjobs' = [xjobs EXCEPT ![e] = job_list]
    /\ \/ /\ UNCHANGED xfaults
          /\ IF filter_duplicates THEN Goto(e, "filter")
             ELSE ReturnOrAdd(e, job_list)
       \/ /\ Fault(e, "authenticate")
          /\ Return(e, Failed("authenticate"))
    /\ xbefore' = [xbefore EXCEPT ![e] = sheet]
    /\ xafter' = [xafter EXCEPT ![e] = {f \in Exporters : xpc[f] = "done"}]
    /\ UNCHANGED <<sheet, xnext, xwrote>>

\* a process calls add_jobs_to_sheets
ExportCall(e) ==
    /\ \E job_list \in ExportJobLists, filter_duplicates \in BOOLEAN :
        StartExport(e, job_list, filter_duplicates)
    /\ UNCHANGED notExport

\* client.filter_new_jobs: get_existing_jobs reads column D, or gets an
\* HttpError and returns [], or gets another exception, which add_jobs_to_sheets
\* catches; then the jobs are filtered and an empty list ends the call
ExportFilter(e) ==
    /\ xpc[e] = "filter"
    /\ \/ /\ UNCHANGED xfaults
          /\ LET new_jobs == filter_new_jobs(xjobs[e],
                                             existing_urls(values_get(sheet, "D")))
             IN  /\ xjobs' = [xjobs EXCEPT ![e] = new_jobs]
                 /\ ReturnOrAdd(e, new_jobs)
       \/ /\ Fault(e, "read urls: HttpError")
          /\ LET new_jobs == filter_new_jobs(xjobs[e], <<>>)
             IN  /\ xjobs' = [xjobs EXCEPT ![e] = new_jobs]
                 /\ ReturnOrAdd(e, new_jobs)
       \/ /\ Fault(e, "read urls")
          /\ Return(e, Failed("read urls"))
          /\ UNCHANGED xjobs
    /\ UNCHANGED <<sheet, xcall, xnext, xbefore, xafter, xwrote, notExport>>

\* the first half of client.add_jobs: column A is read and next_row set, or
\* the read raises
ExportAdd(e) ==
    /\ xpc[e] = "add"
    /\ \/ /\ UNCHANGED xfaults
          /\ xnext' = [xnext EXCEPT ![e] = Len(values_get(sheet, "A")) + 1]
          /\ Goto(e, "update")
       \/ /\ Fault(e, "read rows")
          /\ Return(e, Failed("read rows"))
          /\ UNCHANGED xnext
    /\ UNCHANGED <<sheet, xcall, xjobs, xbefore, xafter, xwrote, notExport>>

\* the second half of client.add_jobs: the rows are built and written at
\* next_row, or the update raises
ExportUpdate(e) ==
    /\ xpc[e] = "update"
    /\ \/ /\ UNCHANGED xfaults
          /\ LET job_rows == [i \in 1..Len(xjobs[e]) |-> job_row(xjobs[e][i])]
             IN  /\ sheet' = values_update(sheet, xnext[e], job_rows)
                 /\ xwrote' = [xwrote EXCEPT ![e] = job_rows]
          /\ Goto(e, "info")
       \/ /\ Fault(e, "update")
          /\ Return(e, Failed("update"))
          /\ UNCHANGED <<sheet, xwrote>>
    /\ UNCHANGED <<xcall, xjobs, xnext, xbefore, xafter, notExport>>

\* client.get_spreadsheet_info, and the result of the call
ExportInfo(e) ==
    /\ xpc[e] = "info"
    /\ \/ /\ UNCHANGED xfaults
          /\ Return(e, Added(Len(xjobs[e])))
       \/ /\ Fault(e, "get info")
          /\ Return(e, Failed("get info"))
    /\ UNCHANGED <<sheet, xcall, xjobs, xnext, xbefore, xafter, xwrote, notExport>>

Call1 == \E e \in Exporters : ExportCall(e)
Filter1 == \E e \in Exporters : ExportFilter(e)
Add1 == \E e \in Exporters : ExportAdd(e)
Update1 == \E e \in Exporters : ExportUpdate(e)
Info1 == \E e \in Exporters : ExportInfo(e)

ExportNext == Call1 \/ Filter1 \/ Add1 \/ Update1 \/ Info1

----------------------------------------------------------------------------
(* The front ends *)

\* POST /search and POST /search/async of api.py, the search_linkedin_jobs
\* tool of server.py, search_linkedin_jobs_tool of fastmcp_server.py
FrontEnds == {"/search", "/search/async", "mcp", "fastmcp"}

\* the exporting process of a front end
FrontExporter == "first"

\* the requests a client sends: spreadsheet_id names the sheet or is empty
\* (an absent spreadsheet_id, None, is as false as '' in the handlers'
\* `if request.spreadsheet_id`)
FrontRequests ==
    [keywords : {"", "python developer"}, location : {""},
     requirements : {<<>>, <<"Python", "Django", "REST API">>},
     max_jobs : {-1, 0, 1, 2}, spreadsheet_id : {"", "sheet-1"},
     filter_duplicates : BOOLEAN]

NoFrontRequest ==
    [keywords |-> "", location |-> "", requirements |-> <<>>, max_jobs |-> 0,
     spreadsheet_id |-> "", filter_duplicates |-> FALSE]

\* the fields of a request that the front end's request model refuses:
\* api.py declares max_jobs with ge=1 and le=100 and keywords as a required
\* string; server.py's model and the FastMCP tool declare types only
rejected_fields(f, r) ==
    IF f \in {"/search", "/search/async"} /\ (r.max_jobs < 1 \/ r.max_jobs > 100)
    THEN {"max_jobs"}
    ELSE {}

NoResponse == [kind |-> "none"]
\* the validation error of the request model, which lists the fields
ValidationError(fields) == [kind |-> "validation_error", fields |-> fields]
\* HTTP 500, a task status "failed", the text "Error searching LinkedIn
\* jobs: ...", or {"status": "error", ...}
ErrorResponse == [kind |-> "error"]
\* "No jobs found matching your criteria." of the two MCP front ends
NoJobsFound == [kind |-> "success", jobs |-> <<>>]
\* the response to a search that was not exported
FoundJobs(job_list) ==
    [kind |-> "success", jobs |-> job_list, sheets_result |-> None]

\* an export failure turned into an error response
search_response_strict(f, job_list, sheets_result) ==
    IF sheets_result.success
    THEN [kind |-> "success", jobs |-> job_list, sheets_result |-> sheets_result]
    ELSE ErrorResponse

\* the response built after add_jobs_to_sheets returned sheets_result: the
\* HTTP front ends copy jobs_added and spreadsheet_url of a successful
\* export, the MCP front ends attach the result as it is
search_response(f, job_list, sheets_result) ==
    IF f \in {"/search", "/search/async"}
    THEN [kind |-> "success", jobs |-> job_list,
          jobs_added_to_sheets |->
              IF sheets_result.success THEN sheets_result.jobs_added ELSE None,
          spreadsheet_url |->
              IF sheets_result.success
              THEN get(sheets_result, "spreadsheet_url", None) ELSE None]
    ELSE [kind |-> "success", jobs |-> job_list, sheets_result |-> sheets_result]

FrontInit ==
    /\ front = "none"
    /\ freq = NoFrontRequest
    /\ fpc = "idle"
    /\ response = NoResponse

\* the arguments the front ends pass to search_linkedin_jobs
search_arguments(r) ==
    [keywords |-> r.keywords, location |-> r.location,
     requirements |-> r.requirements, max_jobs |-> r.max_jobs]

\* a client sends a request: the request model refuses it, or the handler
\* calls search_linkedin_jobs of linkedin_scraper
FrontCall ==
    /\ fpc = "idle"
    /\ \E f \in FrontEnds, r \in FrontRequests :
        /\ front' = f
        /\ freq' = r
        /\ IF rejected_fields(f, r) # {}
           THEN /\ response' = ValidationError(rejected_fields(f, r))
                /\ fpc' = "done"
                /\ UNCHANGED searchVars
           ELSE /\ StartSearch(FrontEndEntry, search_arguments(r))
                /\ fpc' = "searching"
                /\ UNCHANGED response
    /\ UNCHANGED <<matchVars, exportVars, tabVars, helperVars>>

\* search_linkedin_jobs has returned or raised: the handler answers with the
\* error, or with the jobs, or calls add_jobs_to_sheets when the request
\* has a spreadsheet_id (the MCP front ends answer at once when no job was
\* found)
FrontSearched ==
    /\ fpc = "searching"
    /\ pc = "done"
    /\ IF result.kind = "raised"
       THEN /\ response' = ErrorResponse
            /\ fpc' = "done"
            /\ UNCHANGED exportVars
       ELSE IF result.jobs = <<>> /\ front \in {"mcp", "fastmcp"}
       THEN /\ response' = NoJobsFound
            /\ fpc' = "done"
            /\ UNCHANGED exportVars
       ELSE IF freq.spreadsheet_id = ""
       THEN /\ response' = FoundJobs(result.jobs)
            /\ fpc' = "done"
            /\ UNCHANGED exportVars
       ELSE /\ StartExport(FrontExporter, result.jobs, freq.filter_duplicates)
            /\ fpc' = "exporting"
            /\ UNCHANGED response
    /\ UNCHANGED <<front, freq, matchVars, searchVars, tabVars, helperVars>>

\* add_jobs_to_sheets has returned: the handler builds its response
FrontExported ==
    /\ fpc = "exporting"
    /\ xpc[FrontExporter] = "done"
    /\ response' = search_response(front, result.jobs, xresult[FrontExporter])
    /\ fpc' = "done"
    /\ UNCHANGED <<front, freq, matchVars, searchVars, exportVars, tabVars, helperVars>>

FrontNext ==
    \/ FrontCall
    \/ Initialize
    \/ ScraperSearch
    \/ ScraperClose
    \/ FrontSearched
    \/ Filter1
    \/ Add1
    \/ Update1
    \/ Info1
    \/ FrontExported

----------------------------------------------------------------------------
(* The tabs of the browser during the description fetches *)

\* the fetches of one search, one for each card extracted
MaxFetches == 3

PrimaryTab == "primary"
AuxiliaryTab == "auxiliary"

NotAvailable == "Description not available"

\* the session as search_jobs has it when the cards are extracted: the
\* result page in the only tab
TabsInit ==
    /\ window_handles = <<PrimaryTab>>
    /\ focus = PrimaryTab
    /\ dpc = "idle"
    /\ failed_at = "none"
    /\ dtext = ""
    /\ descriptions = <<>>

\* the tabs left when the tab in focus is closed
without(handles, tab) ==
    LET IsOther(h) == h # tab
    IN  SelectSeq(handles, IsOther)

\* a step of the try block raises: on to the except clause
RaiseAt(step) ==
    /\ failed_at' = step
    /\ dpc' = "except"

\* _extract_job_details reads a card in the result page and calls
\* _get_job_description, whose window.open('') opens a tab or raises
OpenTab ==
    /\ dpc = "idle"
    /\ Len(descriptions) < MaxFetches
    /\ focus = PrimaryTab
    /\ \/ /\ window_handles' = Append(window_handles, AuxiliaryTab)
          /\ dpc' = "switch"
          /\ failed_at' = "none"
       \/ /\ RaiseAt("open")
          /\ UNCHANGED window_handles
    /\ UNCHANGED <<focus, dtext, descriptions, notTabs>>

\* switch_to.window(window_handles[1]) moves the focus or raises
SwitchToTab ==
    /\ dpc = "switch"
    /\ \/ /\ focus' = window_handles[2]
          /\ dpc' = "load"
          /\ UNCHANGED failed_at
       \/ /\ RaiseAt("switch")
          /\ UNCHANGED focus
    /\ UNCHANGED <<window_handles, dtext, descriptions, notTabs>>

\* driver.get(job_url) loads the detail page or raises
LoadPage ==
    /\ dpc = "load"
    /\ \/ /\ dpc' = "read"
          /\ UNCHANGED failed_at
       \/ RaiseAt("load")
    /\ UNCHANGED <<window_handles, focus, dtext, descriptions, notTabs>>

\* the description is read: the markup element appears, or the wait times
\* out and the fallback element is found, or neither is there, or reading
\* raises another exception
ReadText ==
    /\ dpc = "read"
    /\ \/ /\ \E i \in 1..Len(PrimaryCards) :
                dtext' = PrimaryCards[i].description
          /\ dpc' = "close"
          /\ UNCHANGED failed_at
       \/ /\ dtext' = NotAvailable
          /\ dpc' = "close"
          /\ UNCHANGED failed_at
       \/ /\ RaiseAt("read")
          /\ UNCHANGED dtext
    /\ UNCHANGED <<window_handles, focus, descriptions, notTabs>>

\* driver.close() closes the tab in focus, switch_to.window(window_handles[0])
\* moves the focus, and the description is returned
CloseTab ==
    /\ dpc = "close"
    /\ LET handles == without(window_handles, focus)
       IN  /\ window_handles' = handles
           /\ focus' = handles[1]
    /\ descriptions' = Append(descriptions, dtext)
    /\ dtext' = ""
    /\ dpc' = "idle"
    /\ UNCHANGED <<failed_at, notTabs>>

\* the except clause: with more than one tab open the tab in focus is
\* closed and the focus moves to window_handles[0]
ExceptClause ==
    /\ dpc = "except"
    /\ IF Len(window_handles) > 1
       THEN LET handles == without(window_handles, focus)
            IN  /\ window_handles' = handles
                /\ focus' = handles[1]
       ELSE UNCHANGED <<window_handles, focus>>
    /\ descriptions' = Append(descriptions, NotAvailable)
    /\ dtext' = ""
    /\ dpc' = "idle"
    /\ UNCHANGED <<failed_at, notTabs>>

TabsNext ==
    \/ OpenTab
    \/ SwitchToTab
    \/ LoadPage
    \/ ReadText
    \/ CloseTab
    \/ ExceptClause

----------------------------------------------------------------------------
(* Helpers called on their own *)

\* the calls made on one generator
MaxSampleCalls == 2

\* a generator whose output turns with the number of earlier calls
sample_jobs_by_turn(arguments, earlier) ==
    LET sample == generate_sample_jobs(arguments.keywords, arguments.location,
                                       arguments.requirements, arguments.max_jobs)
    IN  IF Len(earlier) % 2 = 0 THEN sample
        ELSE [k \in 1..Len(sample) |-> sample[Len(sample) + 1 - k]]

\* what a call of _generate_sample_jobs returns after the calls in `earlier`:
\* the method reads its four arguments and the literals in its body only,
\* and neither the clock nor a random source nor a field of the scraper
sample_jobs(arguments, earlier) ==
    generate_sample_jobs(arguments.keywords, arguments.location,
                         arguments.requirements, arguments.max_jobs)

\* the tasks of a run
MaxTasks == 3

\* the limiter of the model: RateLimiter(LimiterCalls, LimiterWindow)
LimiterCalls == 2
LimiterWindow == 3

\* the coroutines that call acquire(), once each, and the last instant
MaxAcquirers == 4
MaxClock == 6

\* the callbacks of a run
MaxCallbacks == 3

\* the users of the token storage
Users == {"u1", "u2"}

\* the times a call can be made at: the start, and the instants around one
\* hour, 30 days and 60 days after it
Instants == {0, 3600, 3601, 2592000, 2592001, 5184000}

HelpersInit ==
    /\ generated = <<>>
    /\ spc = "idle"
    /\ scroll_max = 0
    /\ last_height = 0
    /\ jobs_loaded = 0
    /\ scroll_log = <<>>
    /\ rpc = "idle"
    /\ decorated = [max_retries |-> 0, delay |-> 0, backoff |-> 0]
    /\ attempt = 0
    /\ current_delay = 0
    /\ last_exception = None
    /\ invoked = <<>>
    /\ slept = <<>>
    /\ retry_result = None
    /\ clock = 0
    /\ tokens = <<>>
    /\ issued = [u \in Users |-> None]
    /\ got = [n |-> 0, user |-> "", at |-> 0, stored |-> None, value |-> None,
              authenticated |-> FALSE]
    /\ oauth_states = <<>>
    /\ callbacks = [c \in 1..MaxCallbacks |-> [state |-> "", pc |-> "idle", status |-> 0]]
    /\ oauth_log = <<>>
    /\ background_tasks_status = <<>>
    /\ bpc = [t \in 1..MaxTasks |-> "none"]
    /\ self_driver = "none"
    /\ commands = <<>>
    /\ lclock = 0
    /\ calls = <<>>
    /\ acquirers = [c \in 1..MaxAcquirers |-> [pc |-> "idle", now |-> 0, wake |-> 0]]
    /\ acquired = <<>>

\* _generate_sample_jobs is called once more
GenerateSample ==
    /\ Len(generated) < MaxSampleCalls
    /\ \E arguments \in [keywords : {"python developer", "QA"},
                         location : {"", "Remote"},
                         requirements : {<<>>, <<"Python", "Django", "REST API">>},
                         max_jobs : 1..MaxSmallJobs] :
         generated' = Append(generated,
                             [arguments |-> arguments,
                              jobs |-> sample_jobs(arguments, generated)])
    /\ UNCHANGED <<scrollVars, retryVars, tokenVars, oauthVars, taskVars, objectVars, limiterVars, notHelpers>>

\* the largest max_retries of a decorator
MaxRetries == 2

\* a wrapper that takes no attempt for the final one
never_final(n, max_retries) == FALSE

\* `if attempt == max_retries`
final_attempt(n, max_retries) == n = max_retries

\* a function decorated with retry_async is called: the wrapper reaches its
\* loop with no exception held and current_delay = delay
RetryCall ==
    /\ rpc = "idle"
    /\ decorated' \in [max_retries : 0..MaxRetries, delay : {1, 3}, backoff : {1, 2}]
    /\ current_delay' = decorated'.delay
    /\ last_exception' = None
    /\ attempt' = 0
    /\ rpc' = "loop"
    /\ UNCHANGED <<invoked, slept, retry_result, generated, scrollVars, tokenVars, oauthVars, taskVars, objectVars, limiterVars, notHelpers>>

\* one round of `for attempt in range(max_retries + 1)`: the function is
\* invoked; its result is returned, or its exception is held and, unless
\* this was the final attempt, current_delay is slept and multiplied by
\* backoff. After the loop the held exception is raised. The k-th
\* invocation returns <<"result", k>> or raises <<"exception", k>>
RetryAttempt ==
    /\ rpc = "loop"
    /\ LET k == Len(invoked) + 1 IN
       \/ /\ invoked' = Append(invoked, "returned")
          /\ retry_result' = [returned |-> <<"result", k>>]
          /\ rpc' = "done"
          /\ UNCHANGED <<attempt, current_delay, last_exception, slept>>
       \/ /\ invoked' = Append(invoked, "raised")
          /\ last_exception' = <<"exception", k>>
          /\ IF final_attempt(attempt, decorated.max_retries)
             THEN /\ retry_result' = [raised |-> last_exception']
                  /\ rpc' = "done"
                  /\ UNCHANGED <<attempt, current_delay, slept>>
             ELSE /\ slept' = Append(slept, current_delay)
                  /\ current_delay' = current_delay * decorated.backoff
                  /\ attempt' = attempt + 1
                  /\ IF attempt' \in 0..decorated.max_retries
                     THEN /\ rpc' = "loop"
                          /\ UNCHANGED retry_result
                     ELSE /\ rpc' = "done"
                          /\ retry_result' = [raised |-> last_exception']
    /\ UNCHANGED <<decorated, generated, scrollVars, tokenVars, oauthVars, taskVars, objectVars, limiterVars, notHelpers>>

\* the get_token calls of a run
MaxTokenCalls == 3

\* `token_data.get('expires_in', 3600)`
DefaultExpiresIn == 3600

\* max_age of serializer.loads: 30 days
TokenMaxAge == 2592000

\* an expiry test that fails a token at its limit already
expired_at_limit(now, expires_at) == now >= expires_at

\* `datetime.now() > token_info['expires_at']`
expired(now, expires_at) == now > expires_at

\* store_token(user_id, token_data) at some time from now on: the token is
\* signed with the time of signing and kept with created_at and expires_at
StoreToken ==
    /\ \E now \in Instants, user_id \in Users,
          token_data \in {[access_token |-> "t1"],
                          [access_token |-> "t2", expires_in |-> 5184000]} :
          /\ now >= clock
          /\ clock' = now
          /\ LET encrypted_token == [payload |-> token_data, signed_at |-> now]
                 lifetime == IF "expires_in" \in DOMAIN token_data
                                 THEN token_data.expires_in
                                 ELSE DefaultExpiresIn
                 token_info == [token |-> encrypted_token, created_at |-> now,
                                expires_at |-> now + lifetime]
             IN  tokens' = [u \in DOMAIN tokens \cup {user_id} |->
                               IF u = user_id THEN token_info ELSE tokens[u]]
          /\ issued' = [issued EXCEPT ![user_id] = [token |-> token_data, at |-> now]]
    /\ UNCHANGED <<got, generated, scrollVars, retryVars, oauthVars, taskVars, objectVars, limiterVars, notHelpers>>

\* get_token(user_id) at some time from now on, as get_user_token and
\* is_user_authenticated call it: None for a user without entry; None, and
\* the entry deleted, for an entry that is expired or whose signature is
\* older than max_age (SignatureExpired); else the token that was signed
GetToken ==
    /\ got.n < MaxTokenCalls
    /\ \E now \in Instants, user_id \in Users :
          /\ now >= clock
          /\ clock' = now
          /\ LET without_entry == [u \in DOMAIN tokens \ {user_id} |-> tokens[u]]
                 returned(value) ==
                     got' = [n |-> got.n + 1, user |-> user_id, at |-> now,
                             stored |-> issued[user_id], value |-> value,
                             authenticated |-> value # None]
             IN  IF user_id \notin DOMAIN tokens
                 THEN returned(None) /\ UNCHANGED tokens
                 ELSE IF expired(now, tokens[user_id].expires_at)
                 THEN returned(None) /\ tokens' = without_entry
                 ELSE IF now - tokens[user_id].token.signed_at > TokenMaxAge
                 THEN returned(None) /\ tokens' = without_entry
                 ELSE returned(tokens[user_id].token.payload) /\ UNCHANGED tokens
    /\ UNCHANGED <<issued, generated, scrollVars, retryVars, oauthVars, taskVars, objectVars, limiterVars, notHelpers>>

\* remove_token(user_id) at some time from now on
RemoveToken ==
    /\ \E now \in Instants, user_id \in Users :
          /\ now >= clock
          /\ clock' = now
          /\ tokens' = [u \in DOMAIN tokens \ {user_id} |-> tokens[u]]
          /\ issued' = [issued EXCEPT ![user_id] = None]
    /\ UNCHANGED <<got, generated, scrollVars, retryVars, oauthVars, taskVars, objectVars, limiterVars, notHelpers>>

\* a validation that forgets the used mark
state_was_issued(states, state) == state \in DOMAIN states

\* the negation of `state not in oauth_states or oauth_states[state]['used']`
state_valid(states, state) == state \in DOMAIN states /\ ~states[state].used

\* GET /auth/linkedin with OAuth configured: get_authorization_url draws a
\* state (secrets.token_urlsafe(32), taken as never drawn before) and the
\* handler keeps it as not used
Authorize ==
    /\ \E state \in {"s1", "s2"} \ DOMAIN oauth_states :
          oauth_states' = [s \in DOMAIN oauth_states \cup {state} |->
                              IF s = state THEN [used |-> FALSE] ELSE oauth_states[s]]
    /\ UNCHANGED <<callbacks, oauth_log, generated, scrollVars, retryVars, tokenVars,
                   taskVars, objectVars, limiterVars, notHelpers>>

\* GET /auth/linkedin/callback up to its first await: a state that is not
\* valid raises HTTPException(400), which the handler's `except Exception`
\* turns into status 500; a valid one is marked used
CallbackValidate ==
    /\ \E c \in 1..MaxCallbacks, state \in {"s1", "s2", "forged"} :
          /\ callbacks[c].pc = "idle"
          /\ IF state_valid(oauth_states, state)
             THEN /\ oauth_states' = [oauth_states EXCEPT ![state].used = TRUE]
                  /\ callbacks' = [callbacks EXCEPT
                                      ![c] = [state |-> state, pc |-> "exchange", status |-> 0]]
             ELSE /\ callbacks' = [callbacks EXCEPT
                                      ![c] = [state |-> state, pc |-> "done", status |-> 500]]
                  /\ UNCHANGED oauth_states
    /\ UNCHANGED <<oauth_log, generated, scrollVars, retryVars, tokenVars, taskVars, objectVars, limiterVars, notHelpers>>

\* the rest of the callback: the code is exchanged for a token, the profile
\* is fetched and the token is stored; a LinkedInOAuthError of the exchange
\* or of the profile request is answered with status 400
CallbackExchange ==
    /\ \E c \in 1..MaxCallbacks :
          /\ callbacks[c].pc = "exchange"
          /\ LET exchange == <<"exchange", c, callbacks[c].state>>
                 store == <<"store", c, callbacks[c].state>>
                 answered(status) ==
                     callbacks' = [callbacks EXCEPT ![c].pc = "done", ![c].status = status]
             IN  \/ oauth_log' = Append(oauth_log, exchange) /\ answered(400)
                 \/ oauth_log' = oauth_log \o <<exchange, store>> /\ answered(200)
    /\ UNCHANGED <<oauth_states, generated, scrollVars, retryVars, tokenVars, taskVars, objectVars, limiterVars, notHelpers>>

\* POST /search/async: a task id is drawn (uuid4, taken as never drawn
\* before), its entry is written with status started, the background search
\* is queued and the id is returned
SearchAsync ==
    /\ \E task_id \in 1..MaxTasks :
          /\ task_id \notin DOMAIN background_tasks_status
          /\ background_tasks_status' =
                [t \in DOMAIN background_tasks_status \cup {task_id} |->
                    IF t = task_id THEN [status |-> "started"]
                                   ELSE background_tasks_status[t]]
          /\ bpc' = [bpc EXCEPT ![task_id] = "queued"]
    /\ UNCHANGED <<generated, scrollVars, retryVars, tokenVars, oauthVars, objectVars, limiterVars, notHelpers>>

\* run_job_search_background starts: the status becomes running and the
\* search is awaited
BackgroundRun ==
    /\ \E task_id \in 1..MaxTasks :
          /\ bpc[task_id] = "queued"
          /\ background_tasks_status' =
                [background_tasks_status EXCEPT ![task_id].status = "running"]
          /\ bpc' = [bpc EXCEPT ![task_id] = "searching"]
    /\ UNCHANGED <<generated, scrollVars, retryVars, tokenVars, oauthVars, objectVars, limiterVars, notHelpers>>

\* a background search whose except clause writes no entry
BackgroundEndSilent ==
    /\ \E task_id \in 1..MaxTasks, found \in 0..1 :
          /\ bpc[task_id] = "searching"
          /\ \/ background_tasks_status' =
                   [background_tasks_status EXCEPT
                       ![task_id] = [status |-> "completed", result |-> found]]
             \/ UNCHANGED background_tasks_status
          /\ bpc' = [bpc EXCEPT ![task_id] = "ended"]
    /\ UNCHANGED <<generated, scrollVars, retryVars, tokenVars, oauthVars, objectVars, limiterVars, notHelpers>>

\* the search, and the export after it, have returned: the entry is
\* replaced by one with status completed and the result; or one of them
\* has raised (search_linkedin_jobs raises when the browser search fails):
\* the except clause replaces the entry by one with status failed
BackgroundEnd ==
    /\ \E task_id \in 1..MaxTasks, found \in 0..1 :
          /\ bpc[task_id] = "searching"
          /\ \/ background_tasks_status' =
                   [background_tasks_status EXCEPT
                       ![task_id] = [status |-> "completed", result |-> found]]
             \/ background_tasks_status' =
                   [background_tasks_status EXCEPT
                       ![task_id] = [status |-> "failed", error |-> "raised"]]
          /\ bpc' = [bpc EXCEPT ![task_id] = "ended"]
    /\ UNCHANGED <<generated, scrollVars, retryVars, tokenVars, oauthVars, objectVars, limiterVars, notHelpers>>

\* the method calls made on one scraper
MaxMethodCalls == 4

\* a client calls scraper.initialize(): a session is launched and held, or
\* _setup_driver raises and self.driver stays what it was
ScraperInitialize ==
    /\ Len(commands) < MaxMethodCalls
    /\ \/ /\ self_driver' = "open"
          /\ commands' = Append(commands, <<"launch", "open">>)
       \/ /\ commands' = Append(commands, <<"launch", "failed">>)
          /\ UNCHANGED self_driver
    /\ UNCHANGED <<generated, scrollVars, retryVars, tokenVars, oauthVars, taskVars,
                   limiterVars, notHelpers>>

\* a client calls scraper.search_jobs(...): `if not self.driver` launches a
\* session first (or raises), then driver.get is issued on the session
\* self.driver refers to
ScraperSearchJobs ==
    /\ Len(commands) < MaxMethodCalls
    /\ IF self_driver = "none"
       THEN \/ /\ self_driver' = "open"
               /\ commands' = commands \o <<<<"launch", "open">>, <<"get", "open">>>>
            \/ /\ commands' = Append(commands, <<"launch", "failed">>)
               /\ UNCHANGED self_driver
       ELSE /\ commands' = Append(commands, <<"get", self_driver>>)
            /\ UNCHANGED self_driver
    /\ UNCHANGED <<generated, scrollVars, retryVars, tokenVars, oauthVars, taskVars,
                   limiterVars, notHelpers>>

\* a client calls scraper.close(): `if self.driver` then driver.quit(),
\* and self.driver keeps referring to the session
ScraperCloseCall ==
    /\ Len(commands) < MaxMethodCalls
    /\ IF self_driver = "none"
       THEN UNCHANGED <<self_driver, commands>>
       ELSE /\ commands' = Append(commands, <<"quit", self_driver>>)
            /\ self_driver' = close(self_driver)
    /\ UNCHANGED <<generated, scrollVars, retryVars, tokenVars, oauthVars, taskVars,
                   limiterVars, notHelpers>>

\* a coroutine calls acquire() up to its await: the calls older than the
\* window are dropped; with max_calls calls left it sleeps until the oldest
\* one leaves the window, else it records `now` and returns
Acquire ==
    /\ \E c \in 1..MaxAcquirers :
          /\ acquirers[c].pc = "idle"
          /\ LET now == lclock
                 kept == SelectSeq(calls, LAMBDA call_time : now - call_time < LimiterWindow)
                 oldest_call == CHOOSE t \in {kept[i] : i \in 1..Len(kept)} :
                                   \A i \in 1..Len(kept) : t <= kept[i]
                 wait_time == LimiterWindow - (now - oldest_call)
             IN  IF Len(kept) >= LimiterCalls /\ wait_time > 0
                 THEN /\ calls' = kept
                      /\ acquirers' = [acquirers EXCEPT
                                          ![c] = [pc |-> "sleeping", now |-> now,
                                                  wake |-> now + wait_time]]
                      /\ UNCHANGED acquired
                 ELSE /\ calls' = Append(kept, now)
                      /\ acquirers' = [acquirers EXCEPT
                                          ![c] = [pc |-> "done", now |-> now, wake |-> now]]
                      /\ acquired' = Append(acquired, lclock)
    /\ UNCHANGED <<lclock, generated, scrollVars, retryVars, tokenVars, oauthVars,
                   taskVars, objectVars, notHelpers>>

\* the sleep of a waiting coroutine ends: it records the `now` it read
\* before the sleep and returns
AcquireWake ==
    /\ \E c \in 1..MaxAcquirers :
          /\ acquirers[c].pc = "sleeping"
          /\ acquirers[c].wake <= lclock
          /\ calls' = Append(calls, acquirers[c].now)
          /\ acquirers' = [acquirers EXCEPT ![c].pc = "done"]
          /\ acquired' = Append(acquired, lclock)
    /\ UNCHANGED <<lclock, generated, scrollVars, retryVars, tokenVars, oauthVars,
                   taskVars, objectVars, notHelpers>>

\* the loop's clock moves on, no sleep being due
LimiterTick ==
    /\ lclock < MaxClock
    /\ \A c \in 1..MaxAcquirers :
          acquirers[c].pc = "sleeping" => acquirers[c].wake > lclock
    /\ lclock' = lclock + 1
    /\ UNCHANGED <<calls, acquirers, acquired, generated, scrollVars, retryVars,
                   tokenVars, oauthVars, taskVars, objectVars, notHelpers>>

\* the heights a result page can grow to
MaxScrollHeight == 3

\* a loop that scrolls whatever number of cards is loaded
keep_scrolling_always(loaded, max_jobs) == TRUE

\* `while jobs_loaded < max_jobs`
keep_scrolling(loaded, max_jobs) == loaded < max_jobs

\* search_jobs reaches the scroll loop with its max_jobs, the height of the
\* result page read and no card counted
ScrollStart ==
    /\ spc = "idle"
    /\ \E max_jobs \in -1..(MaxSmallJobs + 1) :
          scroll_max' = EffectiveMaxJobs(max_jobs)
    /\ last_height' = 1
    /\ jobs_loaded' = 0
    /\ spc' = "loop"
    /\ UNCHANGED <<scroll_log, generated, retryVars, tokenVars, oauthVars, taskVars, objectVars, limiterVars, notHelpers>>

\* one test of the loop condition and, when it holds, one round: the page
\* is scrolled to its bottom, 2 seconds are slept and the height is read
\* again; with the height unchanged the loop is left, else the cards now on
\* the page are counted. A page below its full height may grow at a scroll
ScrollRound ==
    /\ spc = "loop"
    /\ IF keep_scrolling(jobs_loaded, scroll_max)
       THEN \/ /\ scroll_log' = scroll_log \o <<"scroll", "sleep", "same">>
               /\ spc' = "extract"
               /\ UNCHANGED <<last_height, jobs_loaded>>
            \/ /\ last_height < MaxScrollHeight
               /\ scroll_log' = scroll_log \o <<"scroll", "sleep", "grown">>
               /\ last_height' = last_height + 1
               /\ \E more \in 0..MaxPageCards : jobs_loaded' = jobs_loaded + more
               /\ UNCHANGED spc
       ELSE /\ spc' = "extract"
            /\ UNCHANGED <<last_height, jobs_loaded, scroll_log>>
    /\ UNCHANGED <<scroll_max, generated, retryVars, tokenVars, oauthVars, taskVars, objectVars, limiterVars, notHelpers>>

Init == MatchRest /\ SearchInit /\ ExportInit /\ FrontInit /\ TabsInit /\ HelpersInit

Next ==
    \/ Call
    \/ Initialize
    \/ ScraperSearch
    \/ ScraperClose
    \/ OrchestratorSearch
    \/ OrchestratorSample
    \/ HttpFetchPage
    \/ HttpFinish

Spec == Init /\ [][Next]_vars

\* one job text and one requirement list are drawn for the matchers
InitMatch ==
    MatchInit /\ SearchInit /\ ExportInit /\ FrontInit /\ TabsInit /\ HelpersInit

SpecMatch == InitMatch /\ [][MatchNext]_vars

SpecExport == Init /\ [][ExportNext]_vars

SpecFront == Init /\ [][FrontNext]_vars

SpecTabs == Init /\ [][TabsNext]_vars

SpecSample == Init /\ [][GenerateSample]_vars

SpecRetry == Init /\ [][RetryCall \/ RetryAttempt]_vars

SpecTokens == Init /\ [][StoreToken \/ GetToken \/ RemoveToken]_vars

SpecOAuth == Init /\ [][Authorize \/ CallbackValidate \/ CallbackExchange]_vars

SpecLimiter == Init /\ [][Acquire \/ AcquireWake \/ LimiterTick]_vars

SpecScraper ==
    Init /\ [][ScraperInitialize \/ ScraperSearchJobs \/ ScraperCloseCall]_vars

\* a queued background search is run once the response is sent, and the
\* search it awaits returns or raises
SpecTasks ==
    Init /\ [][SearchAsync \/ BackgroundRun \/ BackgroundEnd]_vars
         /\ WF_vars(BackgroundRun \/ BackgroundEnd)

\* the loop is not suspended for ever: each round ends with a sleep of 2
\* seconds and driver calls with the page-load timeout
SpecScroll ==
    Init /\ [][ScrollStart \/ ScrollRound]_vars /\ WF_vars(ScrollStart \/ ScrollRound)

----------------------------------------------------------------------------
(* Properties of a search call *)

Done == pc = "done"

\* the browser scraper of the call failed: it raised, or it returned no job
PrimaryFailed == raised \/ jobs = <<>>

\* strategy `a` was started before position k of the attempts
StartedBefore(a, k) == \E j \in 1..(k - 1) : attempts[j] = a

\* C1: when the browser scraper fails in any way (launch failure, exception,
\* timeout, no job), the search the front ends call does not raise: it goes
\* on to the next strategy and returns a list
C1_PrimaryFailureCaught ==
    (Done /\ entry = FrontEndEntry /\ PrimaryFailed)
        => (result.kind = "list" /\ Len(attempts) > 1)

\* C2: a search with max_jobs >= 1 whose scrapers yield nothing usable (the
\* orchestrator after its browser scraper failed, the HTTP scraper after an
\* empty or placeholder-only fetch) returns exactly min(max_jobs, 20) jobs,
\* every one with source "sample_data"
C2_SampleJobsExactly ==
    (/\ Done
     /\ request.max_jobs >= 1
     /\ \/ entry = "orchestrator" /\ PrimaryFailed
        \/ entry = "http" /\ NothingUsable(jobs))
        => /\ result.kind = "list"
           /\ Len(result.jobs) = Min(request.max_jobs, 20)
           /\ \A k \in 1..Len(result.jobs) : result.jobs[k].source = "sample_data"

\* a request past the generator's cap answered with sample jobs
C2_Witness ==
    /\ Done
    /\ entry = "orchestrator"
    /\ PrimaryFailed
    /\ request.max_jobs = 21
    /\ Len(result.jobs) = 20
    /\ result.jobs[20].source = "sample_data"

\* C3: the strategies run in the order primary, secondary, sample: sample
\* jobs are generated only after the HTTP scraper was tried, and a failed
\* browser scraper is followed by the HTTP scraper
C3_SampleAfterSecondary ==
    /\ \A k \in 1..Len(attempts) :
           attempts[k] = "sample" => StartedBefore("secondary", k)
    /\ \A k \in 2..Len(attempts) :
           attempts[k - 1] = "primary" => attempts[k] = "secondary"

\* C4: every search returns at most max_jobs jobs, whichever strategy
\* produced them and however many records that strategy found (a negative
\* max_jobs is read as 0: nothing may be returned)
C4_AtMostMaxJobs ==
    (Done /\ result.kind = "list")
        => Len(result.jobs) <= (IF request.max_jobs > 0 THEN request.max_jobs ELSE 0)

\* the cap as the code keeps it: at most max_jobs jobs when max_jobs >= 1
AtMostMaxJobsWhenPositive ==
    (Done /\ result.kind = "list" /\ request.max_jobs >= 1)
        => Len(result.jobs) <= request.max_jobs

\* a scraper that found more records than asked for, cut to max_jobs
CutToMaxJobs ==
    /\ Done
    /\ result.kind = "list"
    /\ request.max_jobs >= 1
    /\ raw > request.max_jobs
    /\ Len(result.jobs) = request.max_jobs
    /\ "sample" \notin {attempts[k] : k \in 1..Len(attempts)}

\* C5: with a non-empty requirement list every job returned has is_match
\* true, whichever strategy produced it
C5_OnlyMatchesReturned ==
    (Done /\ result.kind = "list" /\ request.requirements # <<>>)
        => \A k \in 1..Len(result.jobs) :
               /\ "is_match" \in DOMAIN result.jobs[k]
               /\ result.jobs[k].is_match

\* C6: every returned job that carries a match_score has it within [0, 1]
C6_ScoreInUnitInterval ==
    (Done /\ result.kind = "list")
        => \A k \in 1..Len(result.jobs) :
               "match_score" \in DOMAIN result.jobs[k]
                   => InUnitInterval(result.jobs[k].match_score)

----------------------------------------------------------------------------
(* Properties of the matchers *)

\* the requirements found in the job text, in the order given
ExpectedMatches ==
    LET text == lower(JobText(mTitle, mDesc))
        Found(req) == Contains(lower(req), text)
    IN  SelectSeq(mReqs, Found)

\* C7: with an empty requirement list utils.calculate_match_score and
\* LinkedInScraper.match_job_requirements return match_score 1.0, is_match
\* true and no matches
C7_EmptyRequirementsFullMatch ==
    mReqs = <<>> =>
        \A m \in DOMAIN mOut \cap {"utils", "scraper"} :
            /\ ScoreEq(mOut[m].match_score, Score(1, 1))
            /\ mOut[m].is_match
            /\ mOut[m].matches = <<>>

\* C8: with a non-empty requirement list every matcher reports the
\* requirements found in title + ' ' + description (case-insensitive, in
\* order), the score |matches| / |requirements|, and is_match iff the score
\* is at least 0.5
C8_MatchersAgree ==
    mReqs # <<>> =>
        \A m \in DOMAIN mOut :
            /\ "matches" \in DOMAIN mOut[m] => mOut[m].matches = ExpectedMatches
            /\ ScoreEq(mOut[m].match_score, Score(Len(ExpectedMatches), Len(mReqs)))
            /\ mOut[m].is_match <=> (2 * Len(ExpectedMatches) >= Len(mReqs))

----------------------------------------------------------------------------
(* Properties of the export *)

\* two values are the same, of whatever types their parts are
Same(a, b) == ToString(a) = ToString(b)

\* call e has returned, and it was made after call f had returned, with the
\* arguments of f
Repeats(e, f) ==
    /\ e # f
    /\ xpc[e] = "done"
    /\ f \in xafter[e]
    /\ Same(xcall[e], xcall[f])

\* no backend operation failed during call e
Clean(e) == xfaults[e] = {}

\* no other call ran while call e did
Alone(e) == \A f \in Exporters \ {e} : f \in xafter[e] \/ xpc[f] = "idle"

\* the URLs in column D of a sheet, below the header row
UrlColumn(sh) == {sh[i][column.D] : i \in 2..Len(sh)} \ {""}

\* the jobs given to call e whose job_url was not in the URL column when the
\* call started
NotYetInSheet(e) ==
    LET Absent(job) == \/ "job_url" \notin DOMAIN job
                       \/ job.job_url \notin UrlColumn(xbefore[e])
    IN  SelectSeq(xcall[e].jobs, Absent)

\* a sheet with the rows of the given jobs appended
WithAppended(sh, job_list) ==
    values_update(sh, Len(sh) + 1, [i \in 1..Len(job_list) |-> job_row(job_list[i])])

\* C9: a second call of add_jobs_to_sheets with filter_duplicates = true,
\* the same job list and the same sheet, no backend operation failing in
\* either call, returns success with jobs_added = 0 and appends nothing
C9_ExportIdempotent ==
    \A e, f \in Exporters :
        (Repeats(e, f) /\ xcall[e].filter_duplicates /\ Clean(e) /\ Clean(f))
            => /\ xresult[e].success
               /\ xresult[e].jobs_added = 0
               /\ Same(sheet, xbefore[e])

\* C10: with filter_duplicates = true a successful export, no other export
\* running, appends exactly the given jobs whose job_url was not in the URL
\* column, and reports their number as jobs_added
C10_AppendsExactlyNewJobs ==
    \A e \in Exporters :
        (xpc[e] = "done" /\ xcall[e].filter_duplicates /\ xresult[e].success /\ Alone(e))
            => /\ xresult[e].jobs_added = Len(NotYetInSheet(e))
               /\ Same(sheet, WithAppended(xbefore[e], NotYetInSheet(e)))

\* call e has returned after reaching `if not jobs` with an empty list: no
\* exception took it to the except clause before
ReturnedWithNoJobs(e) ==
    /\ xpc[e] = "done"
    /\ xjobs[e] = <<>>
    /\ xfaults[e] \cap {"authenticate", "read urls"} = {}

C12_FailuresReported ==
    \A e \in Exporters :
        (xpc[e] = "done" /\ xfaults[e] # {})
            => /\ ~xresult[e].success
               /\ "error" \in DOMAIN xresult[e]

\* C13: every result an export call returns has spreadsheet_url exactly when
\* success is true and error exactly when success is false, and its
\* jobs_added is at least 0
C13_ResultShape ==
    \A e \in Exporters :
        xpc[e] = "done"
            => /\ ("spreadsheet_url" \in DOMAIN xresult[e]) <=> xresult[e].success
               /\ ("error" \in DOMAIN xresult[e]) <=> ~xresult[e].success
               /\ xresult[e].jobs_added >= 0

\* C14: a description longer than 1000 characters is stored as its first
\* 997 characters followed by '...', no stored description is longer than
\* 1000 characters, and a description of at most 1000 characters is stored
\* as it is
C14_DescriptionCappedAt1000 ==
    \A e \in Exporters : \A i \in 1..Len(xwrote[e]) :
        LET description == get(xjobs[e][i], "description", "")
            stored == xwrote[e][i][column.K]
        IN  /\ Len(stored) <= 1000
            /\ stored = IF Len(description) > 1000
                        THEN SubSeq(description, 1, 997) \o "..."
                        ELSE description

\* the URL of a job, under the key its producer uses
UrlOf(job) == get(job, "job_url", get(job, "link", ""))

\* the jobs of a list whose URL is the placeholder '#'
WithPlaceholderUrl(job_list) ==
    LET IsPlaceholder(job) == UrlOf(job) = "#"
    IN  SelectSeq(job_list, IsPlaceholder)

ExportFailedAfterSearch ==
    /\ fpc = "done"
    /\ result.kind = "list"
    /\ result.jobs # <<>>
    /\ xpc[FrontExporter] = "done"
    /\ ~xresult[FrontExporter].success

\* C16: when a search found jobs and the export that followed failed, the
\* front end answers with a successful search response that holds the jobs
\* found
C16_ExportFailureKeepsJobs ==
    ExportFailedAfterSearch
        => /\ response.kind = "success"
           /\ Same(response.jobs, result.jobs)

\* such a response, after an export that failed in the backend
C16_Witness ==
    /\ ExportFailedAfterSearch
    /\ xfaults[FrontExporter] # {}
    /\ response.kind = "success"
    /\ Len(response.jobs) = 2

\* the fields of a request that are malformed
malformed_fields(r) ==
    (IF r.keywords = "" THEN {"keywords"} ELSE {})
        \cup (IF r.max_jobs <= 0 THEN {"max_jobs"} ELSE {})

\* C17: a request with empty keywords or with max_jobs <= 0 starts no
\* strategy and no browser, through any front end, and is answered with a
\* validation error that names a malformed field
C17_MalformedRejected ==
    (front # "none" /\ malformed_fields(freq) # {})
        => /\ attempts = <<>>
           /\ driver = "none"
           /\ fpc = "done"
           /\ response.kind = "validation_error"
           /\ response.fields # {}
           /\ response.fields \subseteq malformed_fields(freq)

\* what the HTTP front ends do reject: a max_jobs below 1
HttpRejectsMaxJobs ==
    (front \in {"/search", "/search/async"} /\ freq.max_jobs <= 0)
        => /\ attempts = <<>>
           /\ response = ValidationError({"max_jobs"})

\* C18: when a search call has returned or raised, no browser session that
\* was launched for it is still open
C18_NoSessionLeftOpen == Done => driver \in {"none", "quit"}

\* what search_linkedin_jobs of linkedin_scraper does achieve: a session its
\* scraper holds is quit when the call ends, whether it returns or raises
ScraperQuitsHeldSession == (Done /\ entry = "scraper") => driver # "open"

\* a call of linkedin_scraper.search_linkedin_jobs that raised in search_jobs
\* and quit its session
HeldSessionQuitAfterRaise ==
    Done /\ entry = "scraper" /\ result = Raised /\ driver = "quit"

\* C19: after every description fetch, returned or failed at any step, the
\* auxiliary tab is closed, the primary tab is open and has the focus
C19_TabsRestored ==
    (dpc = "idle" /\ descriptions # <<>>)
        => /\ window_handles = <<PrimaryTab>>
           /\ focus = PrimaryTab

\* the fetches that keep the tabs right: those that return a description
\* and those that fail at opening the tab, at loading the page or at reading
TabsRestoredUnlessSwitchFailed ==
    (dpc = "idle" /\ descriptions # <<>> /\ failed_at # "switch")
        => /\ window_handles = <<PrimaryTab>>
           /\ focus = PrimaryTab

\* a fetch failed at loading the page, after one that returned a description
FetchFailedAtLoad ==
    /\ dpc = "idle"
    /\ failed_at = "load"
    /\ Len(descriptions) = 2
    /\ descriptions[1] # NotAvailable
    /\ window_handles = <<PrimaryTab>>

\* the strategy has been started for the request
Started(strategy) == \E i \in 1..Len(attempts) : attempts[i] = strategy

\* C20: within one request the strategies run one after another: a second
\* strategy is started, and an HTTP request of the secondary scraper is
\* issued, only when the primary attempt of the request has ended, and a
\* request that holds sample jobs has no primary attempt still running
C20_StrategiesSequential ==
    [][/\ (Started("primary") /\ (Len(attempts') > Len(attempts) \/ page' > page))
          => raised
       /\ (Started("sample")' /\ Started("primary")')
          => (raised' /\ pc' = "done")]_vars

\* an orchestrated request whose browser was launched, whose primary attempt
\* failed and which then returned sample jobs
C20_Witness ==
    /\ Done
    /\ entry = "orchestrator"
    /\ attempts = <<"primary", "sample">>
    /\ raised
    /\ driver = "open"
    /\ result.kind = "list"
    /\ result.jobs # <<>>

PythonSearchUnreachable ==
    /\ Done
    /\ Contains(Chars("python"), lower(request.keywords))
    /\ Len(request.requirements) = 3
    /\ request.max_jobs = 5
    /\ IF entry = "http" THEN raw = 0 ELSE raised

\* C22: with the scrapers unreachable, a search with keywords containing
\* 'python', three requirements R and max_jobs = 5 returns 5 synthetic jobs
\* with titles of the 'python' list, each with a matches list of at least 2
\* elements of R and is_match true
C22_PythonSampleJobs ==
    PythonSearchUnreachable
        => /\ result.kind = "list"
           /\ Len(result.jobs) = 5
           /\ \A k \in 1..Len(result.jobs) :
                LET job == result.jobs[k]
                IN  /\ job.source = "sample_data"
                    /\ \E t \in 1..Len(title_variations[1][2]) :
                          job.title = title_variations[1][2][t]
                    /\ job.is_match
                    /\ "matches" \in DOMAIN job
                    /\ Len(job.matches) >= 2
                    /\ \A m \in 1..Len(job.matches) :
                          \E r \in 1..3 : job.matches[m] = request.requirements[r]

\* what the orchestrator and the HTTP scraper do return for that search:
\* 5 sample jobs with titles of the 'python' list and is_match true
PythonSampleJobsWithoutMatches ==
    (PythonSearchUnreachable /\ entry # "scraper")
        => /\ result.kind = "list"
           /\ Len(result.jobs) = 5
           /\ \A k \in 1..Len(result.jobs) :
                LET job == result.jobs[k]
                IN  /\ job.source = "sample_data"
                    /\ \E t \in 1..Len(title_variations[1][2]) :
                          job.title = title_variations[1][2][t]
                    /\ job.is_match
                    /\ "matches" \notin DOMAIN job

\* that search, answered by the orchestrator with sample jobs
PythonSearchAnswered ==
    PythonSearchUnreachable /\ entry = "orchestrator" /\ result.kind = "list"

\* the list the HTTP scraper holds after its page loop is empty or has
\* placeholder titles only
ExtractionFailed ==
    \/ jobs = <<>>
    \/ \A k \in 1..Len(jobs) :
          jobs[k].title \in {"Job Title", "Sign in to create job alert"}

\* C23: the HTTP scraper replaces its extraction by sample jobs exactly when
\* the list it holds after all pages is empty or has placeholder titles
\* only; otherwise it returns the extracted jobs and generates no sample job
C23_SampleExactlyOnFailedExtraction ==
    (Done /\ entry = "http")
        => IF ExtractionFailed
           THEN /\ attempts = <<"secondary", "sample">>
                /\ result = Returned(generate_sample_jobs(request.keywords,
                                request.location, request.requirements,
                                request.max_jobs))
           ELSE /\ attempts = <<"secondary">>
                /\ result = Returned(jobs)

\* a search whose pages gave placeholder cards only and which returned
\* sample jobs instead
C23_Witness ==
    /\ Done
    /\ entry = "http"
    /\ Len(jobs) = 2
    /\ ExtractionFailed
    /\ Started("sample")
    /\ result.jobs # <<>>
    /\ result.jobs[1].source = "sample_data"

\* a search that returned its extracted jobs, a placeholder among them
ExtractedJobsReturned ==
    /\ Done
    /\ entry = "http"
    /\ \E k \in 1..Len(jobs) : jobs[k].title = "Job Title"
    /\ ~ExtractionFailed
    /\ result = Returned(jobs)

\* the page requests of the search so far
PageRequests == Len(SelectSeq(http_log, LAMBDA event : event = "request"))

\* C24: the HTTP scraper issues at most min(max_jobs // 25 + 1, 3) page
\* requests in one search, and a 2-second sleep lies between any two
\* consecutive page requests, whatever the first of them gave
C24_PagesCappedAndSpaced ==
    /\ PageRequests <= 3
    /\ PageRequests <= RangeLen((request.max_jobs \div 25) + 1)
    /\ \A k \in 1..(Len(http_log) - 1) :
          ~(http_log[k] = "request" /\ http_log[k + 1] = "request")

\* what the page loop does keep: the cap on the page requests, and a sleep
\* after every response that left the list short of max_jobs
PagesCapped ==
    /\ PageRequests <= 3
    /\ PageRequests <= RangeLen((request.max_jobs \div 25) + 1)

\* a search for more jobs than three pages hold that requested three pages
\* with a sleep after each
PagesSpaced ==
    /\ Done
    /\ request.max_jobs \div 25 + 1 > 3
    /\ http_log = <<"request", "sleep", "request", "sleep", "request", "sleep">>
    /\ jobs # <<>>

\* the browser search of a finished call ended without raising and with no
\* card found, as it does when the result list does not appear within the
\* wait
PrimaryFoundNothing ==
    /\ Done
    /\ attempts[1] = "primary"
    /\ driver # "none"
    /\ ~raised
    /\ raw = 0

\* C25: when the result list does not appear within the wait, the browser
\* search returns an empty list without raising, and the call goes on to
\* the next strategy and does not report the empty list to its caller
C25_TimeoutFallsBack ==
    PrimaryFoundNothing
        => /\ jobs = <<>>
           /\ Len(attempts) > 1
           /\ result # Returned(<<>>)

\* what does hold: the browser search ends with an empty list and the call
\* does not raise
TimeoutReturnsEmptyList ==
    PrimaryFoundNothing => (jobs = <<>> /\ result.kind = "list")

\* a call of linkedin_scraper.search_linkedin_jobs with requirements whose
\* browser search found nothing
TimedOutSearch ==
    /\ PrimaryFoundNothing
    /\ entry = "scraper"
    /\ request.requirements # <<>>
    /\ driver = "quit"

\* the listings of the cards at positions 1..n of the page whose extraction
\* succeeded, in page order
RECURSIVE ExtractedOfFirst(_, _)
ExtractedOfFirst(pg, n) ==
    IF n <= 0 THEN <<>>
    ELSE ExtractedOfFirst(pg, n - 1)
         \o (IF n <= pg.count /\ n \notin pg.broken
             THEN <<extract_job_details(pg, n)>> ELSE <<>>)

\* the listings are those of the same cards, in the same order
SameListings(a, b) ==
    /\ Len(a) = Len(b)
    /\ \A k \in 1..Len(a) :
          /\ a[k].job_url = b[k].job_url
          /\ a[k].title = b[k].title
          /\ a[k].description = b[k].description

\* C26: a card whose extraction fails is skipped and the extraction goes on:
\* the browser search does not raise, and the listings it returns are those
\* of the first max_jobs cards of its page whose extraction succeeded, in
\* page order
C26_FailedCardsSkipped ==
    (pc \in {"close", "done"} /\ entry = "scraper" /\ driver # "none" /\ ~raised)
        => \E pg \in PrimaryPages :
              /\ ValidPrimaryPage(pg)
              /\ pg.count = raw
              /\ SameListings(jobs, ExtractedOfFirst(pg, request.max_jobs))

\* the same for the requests with max_jobs >= 1
FailedCardsSkippedWhenPositive ==
    (pc \in {"close", "done"} /\ entry = "scraper" /\ driver # "none" /\ ~raised
        /\ request.max_jobs >= 1)
        => \E pg \in PrimaryPages :
              /\ ValidPrimaryPage(pg)
              /\ pg.count = raw
              /\ SameListings(jobs, ExtractedOfFirst(pg, request.max_jobs))

\* a search of a page of three cards with max_jobs = 2 whose first card
\* failed: the second card is the only listing
FailedCardSkipped ==
    /\ Done
    /\ entry = "scraper"
    /\ ~raised
    /\ request.max_jobs = 2
    /\ raw = 3
    /\ Len(jobs) = 1
    /\ jobs[1].title = PrimaryCards[2].title

\* C27: in the scroll loop every scroll is followed by a sleep of 2
\* seconds; a scroll is made only while fewer than max_jobs cards are counted
\* and no scroll has left the height unchanged, and the loop is left for
\* one of these two reasons only; and on a page that stops growing the
\* loop ends and the extraction starts
C27_ScrollLoopStops ==
    /\ [](/\ \A k \in 1..Len(scroll_log) :
                scroll_log[k] = "scroll"
                    => (k < Len(scroll_log) /\ scroll_log[k + 1] = "sleep")
          /\ spc = "extract"
                => \/ jobs_loaded >= scroll_max
                   \/ scroll_log[Len(scroll_log)] = "same")
    /\ [][scroll_log' # scroll_log
            => /\ jobs_loaded < scroll_max
               /\ scroll_log # <<>> => scroll_log[Len(scroll_log)] # "same"]_vars
    /\ (spc = "loop") ~> (spc = "extract")

\* a loop that scrolled twice, counted max_jobs = 2 cards and stopped
C27_Witness ==
    /\ spc = "extract"
    /\ scroll_max = 2
    /\ jobs_loaded >= 2
    /\ scroll_log = <<"scroll", "sleep", "grown", "scroll", "sleep", "grown">>

\* C28: a function wrapped by retry_async(max_retries = n) is invoked at most
\* n + 1 times in a call; the wrapper returns the result of the first
\* invocation that succeeds and invokes nothing after it; when all n + 1
\* invocations raise it raises the exception of the last; and it has slept
\* once after each failed invocation but the final one, for delay, delay *
\* backoff, delay * backoff * backoff, ...
C28_RetryBounded ==
    LET n == decorated.max_retries
        failed == {k \in 1..Len(invoked) : invoked[k] = "raised"}
        DelayOf[k \in 1..(MaxRetries + 2)] ==
            IF k = 1 THEN decorated.delay ELSE DelayOf[k - 1] * decorated.backoff
    IN  rpc # "idle" =>
          /\ Len(invoked) <= n + 1
          /\ \A k \in 1..Len(invoked) : invoked[k] = "returned" => k = Len(invoked)
          /\ rpc = "loop" => failed = 1..Len(invoked)
          /\ rpc = "done" =>
                IF invoked[Len(invoked)] = "returned"
                THEN retry_result = [returned |-> <<"result", Len(invoked)>>]
                ELSE /\ Len(invoked) = n + 1
                     /\ retry_result = [raised |-> <<"exception", n + 1>>]
          /\ Len(slept) = Cardinality(failed \ {n + 1})
          /\ \A k \in 1..Len(slept) : slept[k] = DelayOf[k]

\* a call with max_retries = 2, delay 3 and backoff 2 whose three
\* invocations all raised: two sleeps, of 3 and 6, and the third exception
C28_Witness ==
    /\ rpc = "done"
    /\ decorated = [max_retries |-> 2, delay |-> 3, backoff |-> 2]
    /\ invoked = <<"raised", "raised", "raised">>
    /\ slept = <<3, 6>>
    /\ retry_result = [raised |-> <<"exception", 3>>]

\* a call that returned the result of its second invocation after one sleep
RetryReturnedSecond ==
    /\ rpc = "done"
    /\ decorated.max_retries = 2
    /\ invoked = <<"raised", "returned">>
    /\ Len(slept) = 1
    /\ retry_result = [returned |-> <<"result", 2>>]

\* the expires_in of a stored token, 3600 s when it names none
LifetimeOf(token_data) ==
    IF "expires_in" \in DOMAIN token_data THEN token_data.expires_in ELSE 3600

\* C29: get_token(u) returns the token t of the last store_token(u, t) as
\* long as now <= store time + expires_in (3600 s by default), and None
\* after that, after remove_token(u) and for a user who stored nothing;
\* is_user_authenticated(u) is true exactly when a token is returned
C29_TokenWhileUnexpired ==
    got.n > 0 =>
      /\ got.value =
            IF got.stored = None THEN None
            ELSE IF got.at <= got.stored.at + LifetimeOf(got.stored.token)
                 THEN got.stored.token
                 ELSE None
      /\ got.authenticated = (got.value # None)

\* C29, amended: the same, with the token returned as long as now <= store
\* time + expires_in and no more than 30 days have passed since the store;
\* a get_token that returns None leaves no entry for the user
C29_TokenWhileUnexpiredAndYoung ==
    got.n > 0 =>
      /\ got.value =
            IF got.stored = None THEN None
            ELSE IF /\ got.at <= got.stored.at + LifetimeOf(got.stored.token)
                    /\ got.at - got.stored.at <= 2592000
                 THEN got.stored.token
                 ELSE None
      /\ got.authenticated = (got.value # None)
      /\ (got.value = None /\ clock = got.at /\ issued[got.user] = got.stored)
            => got.user \notin DOMAIN tokens

\* a token without expires_in stored at 0 is returned at 3600 and is gone,
\* with its entry, at 3601
C29_Witness ==
    /\ got.n >= 2
    /\ got.stored = [token |-> [access_token |-> "t1"], at |-> 0]
    /\ got.at = 3601
    /\ got.value = None
    /\ got.user \notin DOMAIN tokens

\* the same token returned at its limit
TokenReturnedAtLimit ==
    /\ got.stored = [token |-> [access_token |-> "t1"], at |-> 0]
    /\ got.at = 3600
    /\ got.value = [access_token |-> "t1"]
    /\ got.authenticated

\* C30: a state is accepted by the callback at most once: every token
\* exchange and every stored token belongs to a callback whose state was
\* issued and not used before, so no two callbacks exchange for the same
\* state, also when the first one's exchange failed or is still running, and
\* a callback with another state exchanges and stores nothing
C30_StateAcceptedOnce ==
    /\ \A i, j \in 1..Len(oauth_log) :
          (oauth_log[i][1] = "exchange" /\ oauth_log[j][1] = "exchange"
              /\ oauth_log[i][3] = oauth_log[j][3]) => i = j
    /\ \A i \in 1..Len(oauth_log) :
          /\ oauth_log[i][3] \in DOMAIN oauth_states
          /\ oauth_states[oauth_log[i][3]].used
          /\ callbacks[oauth_log[i][2]].state = oauth_log[i][3]
          /\ oauth_log[i][1] = "store" =>
                (i > 1 /\ oauth_log[i - 1] = <<"exchange", oauth_log[i][2], oauth_log[i][3]>>)
    /\ \A c, d \in 1..MaxCallbacks :
          (c # d /\ callbacks[c].state = callbacks[d].state
              /\ callbacks[c].pc # "idle" /\ callbacks[d].pc # "idle")
            => (callbacks[c].status = 500 \/ callbacks[d].status = 500)
    /\ \A c \in 1..MaxCallbacks :
          callbacks[c].status = 500 => \A i \in 1..Len(oauth_log) : oauth_log[i][2] # c

\* three callbacks with the state s1: the first one's exchange failed, the
\* other two were turned away, one exchange was made and no token stored
C30_Witness ==
    /\ callbacks[1] = [state |-> "s1", pc |-> "done", status |-> 400]
    /\ callbacks[2] = [state |-> "s1", pc |-> "done", status |-> 500]
    /\ callbacks[3] = [state |-> "s1", pc |-> "done", status |-> 500]
    /\ oauth_log = <<<<"exchange", 1, "s1">>>>

\* a callback turned away while the exchange of another one with the same
\* state is still running
ConcurrentCallbackRejected ==
    /\ callbacks[1] = [state |-> "s1", pc |-> "exchange", status |-> 0]
    /\ callbacks[2] = [state |-> "s1", pc |-> "done", status |-> 500]
    /\ oauth_log = <<>>

\* C31: the status chosen where a request is rejected reaches the client:
\* a callback that was turned away for its state, which is one that ended
\* without a token exchange, is answered with status 400
C31_RejectionStatusReachesClient ==
    \A c \in 1..MaxCallbacks :
        (/\ callbacks[c].pc = "done"
         /\ \A i \in 1..Len(oauth_log) : oauth_log[i][2] # c)
            => callbacks[c].status = 400

\* C32: a task id that was returned has an entry in the status map; the
\* status of an entry only moves from started to running and from running to
\* completed or failed, and an entry that is completed or failed never
\* changes; every task that was started reaches completed or failed, also
\* with several searches in the background at once
C32_TaskStatusMoves ==
    /\ [](\A t \in 1..MaxTasks : bpc[t] # "none" => t \in DOMAIN background_tasks_status)
    /\ [][\A t \in DOMAIN background_tasks_status :
            /\ t \in DOMAIN background_tasks_status'
            /\ LET before == background_tasks_status[t]
                   after == background_tasks_status'[t]
               IN  \/ after = before
                   \/ before.status = "started" /\ after.status = "running"
                   \/ before.status = "running" /\ after.status \in {"completed", "failed"}]_vars
    /\ \A t \in 1..MaxTasks :
          (t \in DOMAIN background_tasks_status)
              ~> (/\ t \in DOMAIN background_tasks_status
                  /\ background_tasks_status[t].status \in {"completed", "failed"})

\* three tasks at once: one completed, one failed, one still running
C32_Witness ==
    /\ DOMAIN background_tasks_status = 1..3
    /\ \E a, b, c \in 1..3 :
          /\ background_tasks_status[a].status = "completed"
          /\ background_tasks_status[b].status = "failed"
          /\ background_tasks_status[c].status = "running"

\* the URLs of the sheet's URL column in row order, as get_existing_jobs
\* reads them
UrlCells(sh) == existing_urls(values_get(sh, "D"))

\* no value occurs twice in a sequence
PairwiseDistinct(s) == \A i, j \in 1..Len(s) : s[i] = s[j] => i = j

\* C33: an export with filter_duplicates = true that no other export ran
\* beside, that met no backend failure and returned success, to a sheet
\* whose URL column held pairwise-distinct URLs, leaves a sheet whose URL
\* column holds pairwise-distinct URLs, whatever the job list
C33_UrlColumnStaysDistinct ==
    \A e \in Exporters :
        (/\ xpc[e] = "done"
         /\ \A f \in Exporters \ {e} : xpc[f] = "idle"
         /\ xcall[e].filter_duplicates
         /\ xfaults[e] = {}
         /\ xresult[e].success
         /\ PairwiseDistinct(UrlCells(xbefore[e])))
            => PairwiseDistinct(UrlCells(sheet))

\* what holds: the same for a job list that names no job_url twice
UrlColumnStaysDistinctForDistinctJobs ==
    \A e \in Exporters :
        (/\ xpc[e] = "done"
         /\ \A f \in Exporters \ {e} : xpc[f] = "idle"
         /\ xcall[e].filter_duplicates
         /\ xfaults[e] = {}
         /\ xresult[e].success
         /\ PairwiseDistinct(UrlCells(xbefore[e]))
         /\ \A i, j \in 1..Len(xcall[e].jobs) :
               ("job_url" \in DOMAIN xcall[e].jobs[i] /\ "job_url" \in DOMAIN xcall[e].jobs[j]
                   /\ xcall[e].jobs[i].job_url = xcall[e].jobs[j].job_url) => i = j)
            => PairwiseDistinct(UrlCells(sheet))

\* C34: with filter_duplicates = true an export writes no row whose Job URL
\* was in the URL column of the sheet when the export was called, whatever
\* backend failure it met
C34_NoPresentUrlAppended ==
    \A e \in Exporters :
        xcall[e].filter_duplicates =>
            \A i \in 1..Len(xwrote[e]) :
                xwrote[e][i][column.D] \notin UrlColumn(xbefore[e])

\* what holds: the same for the exports whose read of the URL column did
\* not fail with HttpError
NoPresentUrlAppendedWhenRead ==
    \A e \in Exporters :
        (xcall[e].filter_duplicates /\ "read urls: HttpError" \notin xfaults[e]) =>
            \A i \in 1..Len(xwrote[e]) :
                xwrote[e][i][column.D] \notin UrlColumn(xbefore[e])

\* C35: an export call that returned success = false, with jobs_added = 0,
\* wrote no row: when no other export ran beside it the sheet is what it
\* was before the call
C35_FailedExportWroteNothing ==
    \A e \in Exporters :
        (xpc[e] = "done" /\ ~xresult[e].success)
            => /\ xresult[e].jobs_added = 0
               /\ xwrote[e] = <<>>
               /\ (\A f \in Exporters \ {e} : xpc[f] = "idle") => sheet = xbefore[e]

\* what holds: the same for the calls whose failure was not the one of the
\* metadata read that follows the write
FailedBeforeWriteWroteNothing ==
    \A e \in Exporters :
        (xpc[e] = "done" /\ ~xresult[e].success /\ "get info" \notin xfaults[e])
            => /\ xresult[e].jobs_added = 0
               /\ xwrote[e] = <<>>
               /\ (\A f \in Exporters \ {e} : xpc[f] = "idle") => sheet = xbefore[e]

\* the rows of the sheet call e wrote to
RowRange(e) == xnext[e]..(xnext[e] + Len(xwrote[e]) - 1)

\* the sheet holds the rows call e wrote, where it wrote them (a null value
\* of a row left its cell as it was)
HoldsRowsOf(e) ==
    \A i \in 1..Len(xwrote[e]) : \A c \in 1..Len(headers) :
        IF is_none(xwrote[e][i][c]) THEN TRUE
        ELSE sheet[xnext[e] + i - 1][c] = xwrote[e][i][c]

\* C36: two exports to the sheet that both returned success wrote to row
\* ranges that do not overlap, and the sheet holds the rows of both, however
\* their backend calls interleaved
C36_InterleavedExportsLoseNoRow ==
    \A e, f \in Exporters :
        (e # f /\ xpc[e] = "done" /\ xpc[f] = "done"
            /\ xresult[e].success /\ xresult[f].success)
            => /\ RowRange(e) \cap RowRange(f) = {}
               /\ HoldsRowsOf(e)

\* what holds: the same for two exports of which one returned before the
\* other was called and whose rows all have a Job Title
SequentialExportsLoseNoRow ==
    \A e, f \in Exporters :
        (e # f /\ xpc[e] = "done" /\ xpc[f] = "done"
            /\ xresult[e].success /\ xresult[f].success
            /\ (e \in xafter[f] \/ f \in xafter[e])
            /\ \A g \in {e, f} : \A i \in 1..Len(xwrote[g]) : xwrote[g][i][column.A] # "")
            => /\ RowRange(e) \cap RowRange(f) = {}
               /\ HoldsRowsOf(e)

\* C37: no browser command is issued on a session that was quit: not by a
\* search_jobs after close(), and not by a second close()
C37_NoCommandOnClosedSession ==
    \A i \in 1..Len(commands) : commands[i][2] # "quit"

\* what holds: search_jobs on a scraper that holds no session launches one
\* before its first browser command
SearchInitializesFirst ==
    \A i \in 1..Len(commands) :
        commands[i][1] = "get" =>
            \E j \in 1..(i - 1) : commands[j] = <<"launch", "open">>

\* a search on a scraper that was never initialized
SearchedUninitialized ==
    commands = <<<<"launch", "open">>, <<"get", "open">>>>

\* C38: a result of the HTTP scraper that is not the generator's has no
\* record with a placeholder title
C38_NoPlaceholderAmongExtracted ==
    (Done /\ entry = "http" /\ ~Started("sample"))
        => \A k \in 1..Len(result.jobs) :
              result.jobs[k].title \notin {"Job Title", "Sign in to create job alert"}

\* C39: in every time interval of length time_window at most max_calls
\* calls of acquire() complete: of the calls completed so far, no more than
\* max_calls lie less than time_window after any one of them
C39_AtMostMaxCallsPerWindow ==
    \A i \in 1..Len(acquired) :
        Cardinality({j \in 1..Len(acquired) :
                        acquired[j] >= acquired[i]
                            /\ acquired[j] - acquired[i] < LimiterWindow})
            <= LimiterCalls

\* what holds: as long as no caller has had to wait
AtMostMaxCallsWhileNobodyWaited ==
    (\A c \in 1..MaxAcquirers : acquirers[c].wake = acquirers[c].now)
        => \A i \in 1..Len(acquired) :
              Cardinality({j \in 1..Len(acquired) :
                              acquired[j] >= acquired[i]
                                  /\ acquired[j] - acquired[i] < LimiterWindow})
                  <= LimiterCalls

=============================================================================
